---- MODULE Spec2Model ----
(***************************************************************************)
(* Model of the polyline core of cavalier_contours: the Polyline vertex    *)
(* buffer with its closed flag, the PolylineRef read interface, the        *)
(* PolylineRefMut mutators, the segment iterators and the PlineView        *)
(* vertex materialisation.                                                 *)
(*                                                                         *)
(* Vertex indexes are 0-based as in the source; a Vec is a TLA+ sequence,  *)
(* so source index i is sequence position i + 1.  Coordinates and bulges   *)
(* are integers: the operations modelled here only copy, compare, negate,  *)
(* add and multiply them, and the fuzzy comparisons of the source reduce   *)
(* to exact comparisons on integers (every epsilon is below 1).            *)
(***************************************************************************)
EXTENDS Integers, Sequences, FiniteSets, TLC

VARIABLES
    vertex_data,    \* Polyline::vertex_data
    is_closed,      \* Polyline::is_closed
    ret,            \* outcome of the last call: [op, args, res]
    orig,           \* the polyline as it was before the current run of invert calls
    invert_calls,   \* number of consecutive invert_direction calls since orig
    view,           \* PlineViewData borrowed over the polyline, or NoView
    index_iter,     \* PlineSegIndexIterator state, or NoIter
    seg_iter,       \* PlineSegIterator state, or NoIter
    index_items,    \* items yielded so far by index_iter
    seg_items,      \* items yielded so far by seg_iter
    visit           \* frame of the visit_self_intersects_opt call in flight, or NoVisit

vars ==
    <<vertex_data, is_closed, ret, orig, invert_calls, view,
      index_iter, seg_iter, index_items, seg_items, visit>>

-----------------------------------------------------------------------------
(* Bounds of the model *)

MaxCoord == 1
MaxVerts == 3

(* usize is modelled 16 bits wide (the narrowest pointer width Rust        *)
(* supports); only the wrap of 0 - 1 to the largest usize matters.         *)
UsizeBits == 16

UsizeModulus == 2 ^ UsizeBits

Xs == 0 .. MaxCoord

Ys == {0, 1}

Bulges == {-1, 0, 1}

\* PlineVertex { x, y, bulge }
PlineVertex(x, y, bulge) == [x |-> x, y |-> y, bulge |-> bulge]

\* Vector2 { x, y }
Vector2(x, y) == [x |-> x, y |-> y]

\* all vertexes of the bounded grid
Vertexes == [x : Xs, y : Ys, bulge : Bulges]

\* vertexes on the x axis (the inputs of the mutators and of the views)
AxisVertexes == [x : Xs, y : {0}, bulge : Bulges]

AxisPoints == [x : Xs, y : {0}]

\* PlineVertex::pos
pos(v) == Vector2(v.x, v.y)

\* PlineVertex::with_bulge
with_bulge(v, bulge) == [v EXCEPT !.bulge = bulge]

\* PlineVertex::from_vector2
from_vector2(p, bulge) == PlineVertex(p.x, p.y, bulge)

\* PlineVertex::bulge_is_zero: |bulge| < fuzzy_epsilon
bulge_is_zero(v) == v.bulge = 0

\* PlineVertex::bulge_is_neg
bulge_is_neg(v) == v.bulge < 0

-----------------------------------------------------------------------------
(* Outcomes of a call *)

Some(v) == <<"Some", v>>

None == <<"None">>

Panic == <<"Panic">>

Unit == <<"Unit">>

IsSome(r) == r[1] = "Some"

IsNone(r) == r[1] = "None"

IsPanic(r) == r[1] = "Panic"

Ok(v) == <<"Ok", v>>

IsOk(r) == r[1] = "Ok"

\* Option::unwrap
unwrap(r) == IF IsSome(r) THEN Ok(r[2]) ELSE Panic

NoRet == [op |-> "none", args |-> <<>>, res |-> Unit]

Ret(op, args, res) == [op |-> op, args |-> args, res |-> res]

NoView == <<>>

NoIter == <<>>

NoVisit == <<>>

NoOrig == <<>>

-----------------------------------------------------------------------------
(* Polyline: the value a &self refers to *)

Polyline(vd, closed) == [vertex_data |-> vd, is_closed |-> closed]

Self == Polyline(vertex_data, is_closed)

\* Vec index: self.vertex_data[index] with the source's 0-based index
VecAt(vd, index) == vd[index + 1]

\* PolylineRef::vertex_count for Polyline
vertex_count(self) == Len(self.vertex_data)

\* Polyline::get: Vec::get(index).copied()
get(self, index) ==
    IF index >= 0 /\ index < Len(self.vertex_data)
    THEN Some(VecAt(self.vertex_data, index))
    ELSE None

\* a mutant of Polyline::at: the last vertex is out of bounds
at_LastOutOfBounds(self, index) ==
    IF index >= 0 /\ index + 1 < Len(self.vertex_data)
    THEN Ok(VecAt(self.vertex_data, index))
    ELSE Panic

\* Polyline::at: self[index], panics when out of bounds
at(self, index) ==
    IF index >= 0 /\ index < Len(self.vertex_data)
    THEN Ok(VecAt(self.vertex_data, index))
    ELSE Panic

\* set_vertex on the vertex buffer (index in bounds)
SetVec(vd, index, v) == [vd EXCEPT ![index + 1] = v]

-----------------------------------------------------------------------------
(* invert_direction_mut (PolylineRefMut) *)

\* the swap loop: while start < end { swap(start, end); start += 1; end -= 1 }
RECURSIVE SwapLoop(_, _, _)
SwapLoop(vd, start, end) ==
    IF start < end
    THEN LET s == VecAt(vd, start)
             e == VecAt(vd, end)
         IN SwapLoop(SetVec(SetVec(vd, start, e), end, s), start + 1, end - 1)
    ELSE vd

\* the bulge loop: for i in 1..vc { set(i - 1, at(i - 1).with_bulge(-at(i).bulge)) }
RECURSIVE BulgeLoop(_, _, _)
BulgeLoop(vd, i, vc) ==
    IF i < vc
    THEN LET b == 0 - VecAt(vd, i).bulge
         IN BulgeLoop(SetVec(vd, i - 1, with_bulge(VecAt(vd, i - 1), b)), i + 1, vc)
    ELSE vd

\* a mutant of InvertLastBulge: the last bulge is not negated
InvertLastBulge_NotNegated(vd, closed, first_bulge) ==
    IF closed
    THEN SetVec(vd, Len(vd) - 1, with_bulge(VecAt(vd, Len(vd) - 1), first_bulge))
    ELSE vd

\* the closing step: only a closed polyline gets its last bulge from first_bulge
InvertLastBulge(vd, closed, first_bulge) ==
    IF closed
    THEN SetVec(vd, Len(vd) - 1, with_bulge(VecAt(vd, Len(vd) - 1), 0 - first_bulge))
    ELSE vd

invert_direction_mut(self) ==
    LET vc == vertex_count(self)
    IN IF vc < 2
       THEN self
       ELSE LET reversed == SwapLoop(self.vertex_data, 0, vc - 1)
                first_bulge == VecAt(reversed, 0).bulge
                shifted == BulgeLoop(reversed, 1, vc)
            IN Polyline(InvertLastBulge(shifted, self.is_closed, first_bulge),
                        self.is_closed)

\* slice::reverse
Reverse(vd) == [i \in 1 .. Len(vd) |-> vd[Len(vd) + 1 - i]]

\* PolylineContiguousStorageMut::invert_direction
invert_direction(self) ==
    LET ln == Len(self.vertex_data)
    IN IF ln < 2
       THEN self
       ELSE LET s == Reverse(self.vertex_data)
                first_bulge == VecAt(s, 0).bulge
                shifted == BulgeLoop(s, 1, ln)
            IN Polyline(InvertLastBulge(shifted, self.is_closed, first_bulge),
                        self.is_closed)

-----------------------------------------------------------------------------
(* PolylineRef: segment_count and the wrapping index helpers *)

\* a mutant of segment_count: the vc < 2 case is not singled out
segment_count_NoShortCase(self) ==
    LET vc == vertex_count(self)
    IN IF self.is_closed THEN vc ELSE vc - 1

\* PolylineRef::segment_count
segment_count(self) ==
    LET vc == vertex_count(self)
    IN IF vc < 2 THEN 0
       ELSE IF self.is_closed THEN vc
       ELSE vc - 1

\* PolylineRef::next_wrapping_index
next_wrapping_index(self, i) ==
    LET next == i + 1
    IN IF next >= vertex_count(self) THEN 0 ELSE next

\* PolylineRef::prev_wrapping_index
prev_wrapping_index(self, i) ==
    IF i = 0 THEN vertex_count(self) - 1 ELSE i - 1

-----------------------------------------------------------------------------
(* The segment iterators *)

\* PlineSegIndexIterator::new
PlineSegIndexIterator_new(vc, closed) ==
    [pos |-> 0,
     remaining |-> IF vc < 2 THEN 0 ELSE IF closed THEN vc ELSE vc - 1,
     is_closed |-> closed]

\* a mutant of PlineSegIndexIterator::next: the wrap pair is not special
PlineSegIndexIterator_next_NoWrap(it) ==
    IF it.remaining = 0
    THEN [item |-> None, iter |-> it]
    ELSE [item |-> Some(<<it.pos, it.pos + 1>>),
          iter |-> [it EXCEPT !.remaining = it.remaining - 1, !.pos = it.pos + 1]]

\* PlineSegIndexIterator::next: the item and the iterator after the call
PlineSegIndexIterator_next(it) ==
    IF it.remaining = 0
    THEN [item |-> None, iter |-> it]
    ELSE LET remaining == it.remaining - 1
         IN IF remaining = 0 /\ it.is_closed
            THEN [item |-> Some(<<it.pos, 0>>),
                  iter |-> [it EXCEPT !.remaining = remaining]]
            ELSE [item |-> Some(<<it.pos, it.pos + 1>>),
                  iter |-> [it EXCEPT !.remaining = remaining, !.pos = it.pos + 1]]

\* PolylineRef::iter_segment_indexes
iter_segment_indexes(self) ==
    PlineSegIndexIterator_new(vertex_count(self), self.is_closed)

\* PlineSegIterator::new; vertex_windows is slice::windows(2), held as the
\* 0-based start of the next window
PlineSegIterator_new(self) ==
    [vertex_windows |-> 0,
     wrap_not_exhausted |->
        IF Len(self.vertex_data) < 2 THEN FALSE ELSE self.is_closed]

\* PlineSegIterator::next over the borrowed polyline
PlineSegIterator_next(self, it) ==
    IF it.vertex_windows + 2 <= Len(self.vertex_data)
    THEN [item |-> Some(<<VecAt(self.vertex_data, it.vertex_windows),
                          VecAt(self.vertex_data, it.vertex_windows + 1)>>),
          iter |-> [it EXCEPT !.vertex_windows = it.vertex_windows + 1]]
    ELSE IF it.wrap_not_exhausted
    THEN LET vc == vertex_count(self)
         IN [item |-> Some(<<VecAt(self.vertex_data, vc - 1),
                             VecAt(self.vertex_data, 0)>>),
             iter |-> [it EXCEPT !.wrap_not_exhausted = FALSE]]
    ELSE [item |-> None, iter |-> it]

\* a for loop over iter_segments: every item up to the first None
RECURSIVE DrainSegments(_, _)
DrainSegments(self, it) ==
    LET r == PlineSegIterator_next(self, it)
    IN IF IsNone(r.item) THEN <<>>
       ELSE <<r.item[2]>> \o DrainSegments(self, r.iter)

\* Polyline::iter_segments, collected
iter_segments(self) == DrainSegments(self, PlineSegIterator_new(self))

-----------------------------------------------------------------------------
(* PolylineRef: last and the forward wrapping helpers *)

\* usize subtraction a - b: an overflow panics when overflow checks are on
\* (the default of a debug build) and wraps otherwise
usize_sub(a, b, overflow_checks) ==
    IF a >= b THEN <<"Ok", a - b>>
    ELSE IF overflow_checks THEN Panic
    ELSE <<"Ok", (a - b) % UsizeModulus>>

\* PolylineRef::last: self.get(self.vertex_count() - 1)
last(self, overflow_checks) ==
    LET index == usize_sub(vertex_count(self), 1, overflow_checks)
    IN IF IsPanic(index) THEN Panic ELSE get(self, index[2])

\* PolylineRef::fwd_wrapping_dist; the debug_assert is compiled in when
\* debug_assertions is set
fwd_wrapping_dist(self, start_index, end_index, debug_assertions) ==
    LET vc == vertex_count(self)
    IN IF debug_assertions /\ ~(start_index < vc) THEN Panic
       ELSE IF start_index <= end_index
       THEN usize_sub(end_index, start_index, debug_assertions)
       ELSE LET d == usize_sub(vc, start_index, debug_assertions)
            IN IF IsPanic(d) THEN Panic
               ELSE <<"Ok", (d[2] + end_index) % UsizeModulus>>

\* a mutant of PolylineRef::fwd_wrapping_index: the sum is not wrapped
fwd_wrapping_index_NoWrap(self, start_index, offset, debug_assertions) ==
    LET vc == vertex_count(self)
    IN IF debug_assertions /\ ~(start_index < vc) THEN Panic
       ELSE IF debug_assertions /\ ~(offset <= vc) THEN Panic
       ELSE Ok(start_index + offset)

\* PolylineRef::fwd_wrapping_index
fwd_wrapping_index(self, start_index, offset, debug_assertions) ==
    LET vc == vertex_count(self)
        sum == start_index + offset
    IN IF debug_assertions /\ ~(start_index < vc) THEN Panic
       ELSE IF debug_assertions /\ ~(offset <= vc) THEN Panic
       ELSE IF sum < vc THEN <<"Ok", sum>>
       ELSE usize_sub(sum, vc, debug_assertions)

-----------------------------------------------------------------------------
(* PlineView: a view of a contiguous part of a source polyline *)

PlineViewData(start_index, end_index_offset, updated_start, updated_end_bulge, end_point, inverted_direction) ==
    [start_index |-> start_index,
     end_index_offset |-> end_index_offset,
     updated_start |-> updated_start,
     updated_end_bulge |-> updated_end_bulge,
     end_point |-> end_point,
     inverted_direction |-> inverted_direction]

\* source.at(i) for an index computed by fwd_wrapping_index, then with_bulge
AtWithBulge(source, i, bulge) ==
    IF IsPanic(i) THEN Panic
    ELSE LET v == at(source, i[2])
         IN IF IsPanic(v) THEN Panic ELSE Some(with_bulge(v[2], bulge))

\* a mutant of the forward branch: the end vertex keeps its source bulge
ViewVertexForward_EndBulgeKept(view_data, source, index, debug_assertions) ==
    LET eio == view_data.end_index_offset
    IN IF index = 0 THEN Some(view_data.updated_start)
       ELSE IF index <= eio
       THEN LET i == fwd_wrapping_index(source, view_data.start_index, index,
                                        debug_assertions)
            IN IF IsPanic(i) THEN Panic
               ELSE LET v == at(source, i[2])
                    IN IF IsPanic(v) THEN Panic ELSE Some(v[2])
       ELSE IF index = eio + 1
       THEN Some(from_vector2(view_data.end_point, 0))
       ELSE None

\* get_view_vertex_impl, the branch of a view that is not inverted
ViewVertexForward(view_data, source, index, debug_assertions) ==
    LET eio == view_data.end_index_offset
    IN IF index = 0 THEN Some(view_data.updated_start)
       ELSE IF index < eio
       THEN LET i == fwd_wrapping_index(source, view_data.start_index, index,
                                        debug_assertions)
            IN IF IsPanic(i) THEN Panic
               ELSE LET v == at(source, i[2])
                    IN IF IsPanic(v) THEN Panic ELSE Some(v[2])
       ELSE IF index = eio
       THEN AtWithBulge(source,
                        fwd_wrapping_index(source, view_data.start_index, eio,
                                           debug_assertions),
                        view_data.updated_end_bulge)
       ELSE IF index = eio + 1
       THEN Some(from_vector2(view_data.end_point, 0))
       ELSE None

\* a mutant of the inverted branch: inner vertexes keep their own bulge, negated
ViewVertexInverted_OwnBulge(view_data, source, index, debug_assertions) ==
    LET eio == view_data.end_index_offset
    IN IF index = 0
       THEN Some(from_vector2(view_data.end_point, -view_data.updated_end_bulge))
       ELSE IF index < eio
       THEN LET bulge_i == fwd_wrapping_index(source, view_data.start_index,
                                              eio - index, debug_assertions)
            IN IF IsPanic(bulge_i) THEN Panic
               ELSE LET v == at(source, next_wrapping_index(source, bulge_i[2]))
                    IN IF IsPanic(v) THEN Panic
                       ELSE Some(with_bulge(v[2], -v[2].bulge))
       ELSE IF index = eio
       THEN AtWithBulge(source,
                        fwd_wrapping_index(source, view_data.start_index,
                                           eio - index + 1, debug_assertions),
                        -view_data.updated_start.bulge)
       ELSE IF index = eio + 1
       THEN Some(with_bulge(view_data.updated_start, 0))
       ELSE None

\* get_view_vertex_impl, the branch of an inverted view
ViewVertexInverted(view_data, source, index, debug_assertions) ==
    LET eio == view_data.end_index_offset
    IN IF index = 0
       THEN Some(from_vector2(view_data.end_point, -view_data.updated_end_bulge))
       ELSE IF index < eio
       THEN LET bulge_i == fwd_wrapping_index(source, view_data.start_index,
                                              eio - index, debug_assertions)
            IN IF IsPanic(bulge_i) THEN Panic
               ELSE LET b == at(source, bulge_i[2])
                    IN IF IsPanic(b) THEN Panic
                       ELSE AtWithBulge(source,
                                Ok(next_wrapping_index(source, bulge_i[2])),
                                -b[2].bulge)
       ELSE IF index = eio
       THEN AtWithBulge(source,
                        fwd_wrapping_index(source, view_data.start_index,
                                           eio - index + 1, debug_assertions),
                        -view_data.updated_start.bulge)
       ELSE IF index = eio + 1
       THEN Some(with_bulge(view_data.updated_start, 0))
       ELSE None

\* get_view_vertex_impl
get_view_vertex_impl(view_data, source, index, debug_assertions) ==
    IF index > view_data.end_index_offset + 1 THEN None
    ELSE IF view_data.inverted_direction
    THEN ViewVertexInverted(view_data, source, index, debug_assertions)
    ELSE ViewVertexForward(view_data, source, index, debug_assertions)

\* a mutant of PlineView::vertex_count: the end point is not counted
PlineView_vertex_count_NoEndPoint(view_data) == view_data.end_index_offset + 1

\* PlineView::vertex_count
PlineView_vertex_count(view_data) == view_data.end_index_offset + 2

\* PlineView::is_closed
PlineView_is_closed(view_data) == FALSE

\* PlineView::get
PlineView_get(view_data, source, index, debug_assertions) ==
    get_view_vertex_impl(view_data, source, index, debug_assertions)

\* PlineView::at; a panic inside get_view_vertex_impl is a panic of at
PlineView_at(view_data, source, index, debug_assertions) ==
    LET r == get_view_vertex_impl(view_data, source, index, debug_assertions)
    IN IF IsPanic(r) THEN Panic ELSE unwrap(r)

-----------------------------------------------------------------------------
(* area and orientation *)

(* A real number q/4 + (p/4) * pi with integers q and p.  On the grid, with  *)
(* bulges in {-1, 0, 1}, twice the area is of this form: a line contributes  *)
(* x1*y2 - y1*x2, and an arc of bulge +-1 is a half circle over its chord    *)
(* (sweep pi, radius base/2, sagitta base/2, triangle height 0), whose       *)
(* doubled circular segment area is pi * base^2 / 4.                         *)
Real4(q, p) == [q |-> q, p |-> p]

\* sign of q + p * pi, decided with 333/106 < pi < 355/113 (exact for |p| < 106)
SignOfReal4(r) ==
    IF r.p = 0 THEN (IF r.q > 0 THEN 1 ELSE IF r.q < 0 THEN -1 ELSE 0)
    ELSE LET lo == IF r.p > 0 THEN 113 * 106 * r.q + 113 * 333 * r.p
                   ELSE 113 * 106 * r.q + 106 * 355 * r.p
             hi == IF r.p > 0 THEN 113 * 106 * r.q + 106 * 355 * r.p
                   ELSE 113 * 106 * r.q + 113 * 333 * r.p
         IN IF lo > 0 THEN 1 ELSE IF hi < 0 THEN -1 ELSE 0

\* the doubled area one segment adds in the loop of area()
SegDoubleArea(v1, v2) ==
    LET cross == v1.x * v2.y - v1.y * v2.x
        base_sq == (v2.x - v1.x) * (v2.x - v1.x) + (v2.y - v1.y) * (v2.y - v1.y)
        double_arc_area4 ==
            IF bulge_is_zero(v1) THEN 0
            ELSE IF bulge_is_neg(v1) THEN 0 - base_sq
            ELSE base_sq
    IN Real4(4 * cross, double_arc_area4)

\* the fold of area() over iter_segments
RECURSIVE DoubleTotalArea(_, _)
DoubleTotalArea(segs, acc) ==
    IF segs = <<>> THEN acc
    ELSE LET a == SegDoubleArea(Head(segs)[1], Head(segs)[2])
         IN DoubleTotalArea(Tail(segs), Real4(acc.q + a.q, acc.p + a.p))

\* PolylineRef::area, as eight times its value: q + p * pi
area(self) ==
    IF ~self.is_closed THEN Real4(0, 0)
    ELSE DoubleTotalArea(iter_segments(self), Real4(0, 0))

\* a mutant of orientation: a zero area counts as clockwise
orientation_ZeroIsClockwise(self) ==
    IF ~self.is_closed THEN "Open"
    ELSE IF SignOfReal4(area(self)) <= 0 THEN "Clockwise"
    ELSE "CounterClockwise"

\* PolylineRef::orientation
orientation(self) ==
    IF ~self.is_closed THEN "Open"
    ELSE IF SignOfReal4(area(self)) < 0 THEN "Clockwise"
    ELSE "CounterClockwise"

-----------------------------------------------------------------------------
(* PolylineSlice and OpenPlineSlice: slices of a source polyline *)

OpenPlineSlice(start_index, end_index_offset, updated_start, updated_end_bulge, end_point, inverted) == PlineViewData(start_index, end_index_offset, updated_start, updated_end_bulge, end_point, inverted)

\* seg_closest_point(v1, v2, point) is point itself: point lies on the segment.
\* A line holds the collinear points between its ends; an arc of bulge +-1 is
\* the half circle over its chord, to the right of the chord when the bulge is
\* positive (counter clockwise) and to the left when negative.
ClosestPointIsPoint(v1, v2, point) ==
    LET dx == v2.x - v1.x
        dy == v2.y - v1.y
        px == point.x - v1.x
        py == point.y - v1.y
        cross == dx * py - dy * px
        dot == dx * px + dy * py
        on_circle == (2 * point.x - v1.x - v2.x) * (2 * point.x - v1.x - v2.x)
                     + (2 * point.y - v1.y - v2.y) * (2 * point.y - v1.y - v2.y)
                     = dx * dx + dy * dy
    IN IF bulge_is_zero(v1)
       THEN cross = 0 /\ dot >= 0 /\ dot <= dx * dx + dy * dy
       ELSE /\ pos(v1) # pos(v2)
            /\ on_circle
            /\ IF bulge_is_neg(v1) THEN cross >= 0 ELSE cross <= 0

\* the closure point_is_on_segment of validate_for_source; Panic when
\* source.at(seg_index) panics
point_is_on_segment(source, seg_index, point) ==
    LET v1 == at(source, seg_index)
        v2 == at(source, next_wrapping_index(source, seg_index))
    IN IF IsPanic(v1) \/ IsPanic(v2) THEN Panic
       ELSE Ok(\/ point = pos(v1[2])
               \/ point = pos(v2[2])
               \/ ClosestPointIsPoint(v1[2], v2[2], point))

\* PolylineSlice::validate_for_source: the SliceValidation variant, or Panic
validate_for_source(slice, source, debug_assertions) ==
    IF slice.end_index_offset > vertex_count(source)
    THEN <<"OffsetOutOfRange">>
    ELSE LET start_on == point_is_on_segment(source, slice.start_index,
                                             pos(slice.updated_start))
         IN IF IsPanic(start_on) THEN Panic
            ELSE IF ~start_on[2] THEN <<"UpdatedStartNotOnSegment">>
            ELSE LET end_index == fwd_wrapping_index(source, slice.start_index,
                                      slice.end_index_offset, debug_assertions)
                     end_on == IF IsPanic(end_index) THEN Panic
                               ELSE point_is_on_segment(source, end_index[2],
                                                        slice.end_point)
                 IN IF IsPanic(end_on) THEN Panic
                    ELSE IF ~end_on[2] THEN <<"EndPointNotOnSegment">>
                    ELSE IF slice.end_point = pos(at(source, end_index[2])[2])
                    THEN <<"EndPointOnFinalOffsetVertex">>
                    ELSE IF /\ slice.end_index_offset = 0
                            /\ slice.updated_end_bulge # slice.updated_start.bulge
                    THEN <<"UpdatedBulgeDoesNotMatch">>
                    ELSE <<"IsValid">>

\* debug_assert_eq!(slice.validate_for_source(source), SliceValidation::IsValid)
DebugAssertValid(slice, source, debug_assertions) ==
    IF debug_assertions /\ validate_for_source(slice, source, TRUE) # <<"IsValid">>
    THEN Panic
    ELSE Ok(slice)

\* a mutant of create_on_single_segment: the end bulge is that of the source vertex
create_on_single_segment_SourceBulge(source, start_index, updated_start, end_intersect, debug_assertions) ==
    IF pos(updated_start) = end_intersect THEN None
    ELSE Some(OpenPlineSlice(start_index, 0, updated_start,
                             at(source, start_index)[2].bulge, end_intersect, FALSE))

\* OpenPlineSlice::create_on_single_segment
create_on_single_segment(source, start_index, updated_start, end_intersect, debug_assertions) ==
    IF pos(updated_start) = end_intersect THEN None
    ELSE LET slice == OpenPlineSlice(start_index, 0, updated_start,
                                     updated_start.bulge, end_intersect, FALSE)
             checked == DebugAssertValid(slice, source, debug_assertions)
         IN IF IsPanic(checked) THEN Panic ELSE Some(slice)

\* OpenPlineSlice::from_entire_pline
from_entire_pline(source, debug_assertions) ==
    LET vc == vertex_count(source)
    IN IF ~(vc >= 2) THEN Panic
       ELSE LET slice ==
                    IF source.is_closed
                    THEN OpenPlineSlice(0, vc - 1, at(source, 0)[2],
                                        last(source, TRUE)[2].bulge,
                                        pos(at(source, 0)[2]), FALSE)
                    ELSE OpenPlineSlice(0, vc - 2, at(source, 0)[2],
                                        at(source, vc - 2)[2].bulge,
                                        pos(at(source, vc - 1)[2]), FALSE)
            IN DebugAssertValid(slice, source, debug_assertions)

\* the vertexes view.iter_vertexes() yields in PolylineSlice::visit_vertexes:
\* at(0), ..., at(vertex_count - 1) of the view built from the slice
RECURSIVE ViewVertexesFrom(_, _, _, _)
ViewVertexesFrom(slice, source, index, debug_assertions) ==
    IF index >= PlineView_vertex_count(slice) THEN Ok(<<>>)
    ELSE LET v == PlineView_at(slice, source, index, debug_assertions)
             rest == ViewVertexesFrom(slice, source, index + 1, debug_assertions)
         IN IF IsPanic(v) \/ IsPanic(rest) THEN Panic
            ELSE Ok(<<v[2]>> \o rest[2])

\* PolylineSlice::visit_vertexes with a visitor that collects and never breaks
visit_vertexes(slice, source, debug_assertions) ==
    ViewVertexesFrom(slice, source, 0, debug_assertions)

\* PolylineSlice::visit_segs with a visitor that collects and never breaks:
\* the pairs of consecutive vertexes
visit_segs(slice, source, debug_assertions) ==
    LET vs == visit_vertexes(slice, source, debug_assertions)
    IN IF IsPanic(vs) THEN Panic
       ELSE Ok([k \in 1 .. Len(vs[2]) - 1 |-> <<vs[2][k], vs[2][k + 1]>>])

\* seg_length(v1, v2) as a Real4, for a chord parallel to an axis: a line has
\* the length of its chord, an arc of bulge +-1 (a half circle) pi * chord / 2
seg_length(v1, v2) ==
    LET dx == IF v2.x >= v1.x THEN v2.x - v1.x ELSE v1.x - v2.x
        dy == IF v2.y >= v1.y THEN v2.y - v1.y ELSE v1.y - v2.y
        chord == dx + dy
    IN IF bulge_is_zero(v1) THEN Real4(4 * chord, 0) ELSE Real4(0, 2 * chord)

\* the point find_point_at_path_length computes on the segment v1, v2 at the
\* parametric value t = (target_path_length - acc_length) / seg_len, kept as
\* the segment and the two terms of t (the line and the arc branch both
\* evaluate the segment at t)
PointAtParam(v1, v2, num, den) == [v1 |-> v1, v2 |-> v2, num |-> num, den |-> den]

\* the visitor of find_point_at_path_length run over the segments from k on
RECURSIVE FindPointVisit(_, _, _, _, _)
FindPointVisit(segs, k, seg_index, acc_length, target_path_length) ==
    IF k > Len(segs) THEN <<"Err", acc_length>>
    ELSE LET v1 == segs[k][1]
             v2 == segs[k][2]
             seg_len == seg_length(v1, v2)
             sum_len == Real4(acc_length.q + seg_len.q, acc_length.p + seg_len.p)
         IN IF SignOfReal4(Real4(sum_len.q - 4 * target_path_length, sum_len.p)) < 0
            THEN FindPointVisit(segs, k + 1, seg_index + 1, sum_len,
                                target_path_length)
            ELSE Ok(<<seg_index,
                      PointAtParam(v1, v2,
                          Real4(4 * target_path_length - acc_length.q,
                                0 - acc_length.p),
                          seg_len)>>)

\* PolylineSlice::find_point_at_path_length
find_point_at_path_length(slice, source, target_path_length, debug_assertions) ==
    IF target_path_length < 0
    THEN LET first == at(source, 0)
         IN IF IsPanic(first) THEN Panic ELSE Ok(<<0, pos(first[2])>>)
    ELSE LET segs == visit_segs(slice, source, debug_assertions)
         IN IF IsPanic(segs) THEN Panic
            ELSE FindPointVisit(segs[2], 1, 0, Real4(0, 0), target_path_length)

-----------------------------------------------------------------------------
(* PolylineRef::remove_repeat_pos *)

\* remove_last on the vertex buffer
RemoveLast(vd) == SubSeq(vd, 1, Len(vd) - 1)

\* a mutant of the bulge update: the kept vertex keeps its own bulge
SetLastBulge_Kept(vd, bulge) == vd

\* result.last_mut().unwrap().bulge = bulge
SetLastBulge(vd, bulge) == [vd EXCEPT ![Len(vd)].bulge = bulge]

\* the loop of remove_repeat_pos from vertex i on; result is None or Some of
\* the vertex buffer of the output polyline
RECURSIVE RepeatPosLoop(_, _, _, _)
RepeatPosLoop(self, i, result, prev_pos) ==
    IF i >= vertex_count(self) THEN result
    ELSE LET v == VecAt(self.vertex_data, i)
             is_repeat == pos(v) = prev_pos
         IN IF is_repeat
            THEN LET r == IF IsNone(result)
                          THEN SubSeq(self.vertex_data, 1, i)
                          ELSE result[2]
                 IN RepeatPosLoop(self, i + 1, Some(SetLastBulge(r, v.bulge)),
                                  prev_pos)
            ELSE RepeatPosLoop(self, i + 1,
                               IF IsNone(result) THEN None
                               ELSE Some(Append(result[2], v)),
                               pos(v))

\* PolylineRef::remove_repeat_pos (pos_equal_eps below the grid spacing)
remove_repeat_pos(self) ==
    IF vertex_count(self) < 2 THEN None
    ELSE LET result == RepeatPosLoop(self, 1, None, pos(at(self, 0)[2]))
         IN IF /\ self.is_closed
               /\ pos(last(self, TRUE)[2]) = pos(at(self, 0)[2])
            THEN Some(Polyline(RemoveLast(IF IsNone(result) THEN self.vertex_data
                                          ELSE result[2]),
                               self.is_closed))
            ELSE IF IsNone(result) THEN None
            ELSE Some(Polyline(result[2], self.is_closed))

-----------------------------------------------------------------------------
(* PolylineRef::remove_redundant *)

\* PlineVertex::bulge_is_pos
bulge_is_pos(v) == v.bulge > 0

\* a mutant of add_or_replace_vertex: the vertex is always added
add_or_replace_vertex_Append(vd, vertex) == Append(vd, vertex)

\* PolylineRefMut::add_or_replace_vertex on the vertex buffer
add_or_replace_vertex(vd, vertex) ==
    LET vc == Len(vd)
    IN IF vc = 0 THEN Append(vd, vertex)
       ELSE LET last_v == VecAt(vd, vc - 1)
            IN IF pos(last_v) = pos(vertex)
               THEN SetVec(vd, vc - 1, with_bulge(last_v, vertex.bulge))
               ELSE Append(vd, vertex)

\* a mutant of is_collinear_same_dir: the direction is not looked at
is_collinear_same_dir_AnyDir(v1, v2, v3) ==
    \/ pos(v2) = pos(v3)
    \/ v1.x * (v2.y - v3.y) + v2.x * (v3.y - v1.y) + v3.x * (v1.y - v2.y) = 0

\* the closure is_collinear_same_dir of remove_redundant
is_collinear_same_dir(v1, v2, v3) ==
    \/ pos(v2) = pos(v3)
    \/ /\ v1.x * (v2.y - v3.y) + v2.x * (v3.y - v1.y) + v3.x * (v1.y - v2.y) = 0
       /\ (v3.x - v2.x) * (v2.x - v1.x) + (v3.y - v2.y) * (v2.y - v1.y) > 0

\* the while loop that removes the repeat positions at the start: v1, v2 and
\* i after the loop, or Panic when self.at(i) runs past the last vertex
RECURSIVE RedundantStart(_, _, _, _)
RedundantStart(self, v1, v2, i) ==
    IF pos(v1) = pos(v2)
    THEN LET next == at(self, i)
         IN IF IsPanic(next) THEN Panic
            ELSE RedundantStart(self, with_bulge(v1, v2.bulge), next[2], i + 1)
    ELSE Ok([v1 |-> v1, v2 |-> v2, i |-> i])

\* two arcs in a row of the same orientation: v2 goes when both arcs have the
\* same radius and center and a total sweep of at most pi.  An arc of bulge
\* +-1 is a half circle centered on the middle of its chord: equal centers
\* put v3 on top of v1 and make the total sweep 2 * pi, so v2 stays.
RedundantArcCase(v1, v2, v3) == "IncludeVertex"

\* the RemoveRedundantCase the loop body computes for the middle vertex v2
RedundantCase(self, st, i, v3) ==
    IF pos(st.v2) = pos(v3) THEN "DiscardVertex"
    ELSE IF st.v1_bulge_is_zero /\ st.v2_bulge_is_zero
    THEN LET is_final_vertex_for_open == ~self.is_closed /\ i = vertex_count(self)
         IN IF ~is_final_vertex_for_open /\ is_collinear_same_dir(st.v1, st.v2, v3)
            THEN "DiscardVertex"
            ELSE "IncludeVertex"
    ELSE IF /\ ~st.v1_bulge_is_zero
            /\ ~st.v2_bulge_is_zero
            /\ st.v1_bulge_is_pos = st.v2_bulge_is_pos
            /\ pos(st.v2) # pos(v3)
    THEN RedundantArcCase(st.v1, st.v2, v3)
    ELSE "IncludeVertex"

\* one pass of the loop body: the match on the case
RedundantStep(self, st, i, v3) ==
    LET copy_self ==
            SubSeq(self.vertex_data, 1,
                   IF i - 1 <= vertex_count(self) THEN i - 1 ELSE vertex_count(self))
    IN IF RedundantCase(self, st, i, v3) = "IncludeVertex"
       THEN [v1 |-> st.v2,
             v2 |-> v3,
             result |-> IF IsNone(st.result) THEN None
                        ELSE Some(Append(st.result[2], st.v2)),
             v1_bulge_is_zero |-> st.v2_bulge_is_zero,
             v2_bulge_is_zero |-> bulge_is_zero(v3),
             v1_bulge_is_pos |-> st.v2_bulge_is_pos,
             v2_bulge_is_pos |-> bulge_is_pos(v3)]
       ELSE [st EXCEPT !.result = IF IsNone(st.result) THEN Some(copy_self)
                                  ELSE st.result,
                       !.v2 = v3,
                       !.v2_bulge_is_zero = bulge_is_zero(v3),
                       !.v2_bulge_is_pos = bulge_is_pos(v3)]

\* the for loop over iter_vertexes().cycle().enumerate().skip(i).take(remaining)
RECURSIVE RedundantLoop(_, _, _, _)
RedundantLoop(self, st, i, remaining) ==
    IF remaining = 0 THEN st
    ELSE RedundantLoop(self,
             RedundantStep(self, st, i,
                           VecAt(self.vertex_data, i % vertex_count(self))),
             i + 1, remaining - 1)

\* the end of remove_redundant for a closed polyline: the vertex buffer of
\* the result in Some, None, or Panic
RedundantClosedEnd(self, st) ==
    LET wrapped ==
            IF IsSome(st.result)
            THEN LET pl == st.result[2]
                 IN IF Len(pl) = 0 THEN Panic
                    ELSE IF pos(pl[Len(pl)]) = pos(pl[1]) THEN Some(RemoveLast(pl))
                    ELSE st.result
            ELSE IF pos(last(self, TRUE)[2]) = pos(at(self, 0)[2])
            THEN Some(RemoveLast(self.vertex_data))
            ELSE None
    IN IF IsPanic(wrapped) THEN Panic
       ELSE LET cur == IF IsSome(wrapped) THEN wrapped[2] ELSE self.vertex_data
            IN IF Len(cur) < 2 THEN Panic
               ELSE IF /\ st.v1_bulge_is_zero
                       /\ st.v2_bulge_is_zero
                       /\ is_collinear_same_dir(st.v1, st.v2, cur[2])
               THEN Some(SetVec(RemoveLast(cur), 0, cur[Len(cur)]))
               ELSE wrapped

\* the end of remove_redundant for an open polyline
RedundantOpenEnd(self, st) ==
    LET vc == vertex_count(self)
    IN IF IsSome(st.result)
       THEN Some(add_or_replace_vertex(st.result[2], last(self, TRUE)[2]))
       ELSE IF at(self, vc - 2) = at(self, vc - 1)
       THEN Some(RemoveLast(self.vertex_data))
       ELSE None

\* PolylineRef::remove_redundant (pos_equal_eps below the grid spacing)
remove_redundant(self) ==
    LET vc == vertex_count(self)
    IN IF vc < 2 THEN None
       ELSE IF vc = 2
       THEN IF pos(at(self, 0)[2]) = pos(at(self, 1)[2])
            THEN Some(Polyline(<<at(self, 0)[2]>>, self.is_closed))
            ELSE None
       ELSE LET start == RedundantStart(self, at(self, 0)[2], at(self, 1)[2], 2)
            IN IF IsPanic(start) THEN Panic
               ELSE LET v1 == start[2].v1
                        v2 == start[2].v2
                        i == start[2].i
                        st == RedundantLoop(self,
                                  [v1 |-> v1,
                                   v2 |-> v2,
                                   result |-> IF i = 2 THEN None ELSE Some(<<v1>>),
                                   v1_bulge_is_zero |-> bulge_is_zero(v1),
                                   v2_bulge_is_zero |-> bulge_is_zero(v2),
                                   v1_bulge_is_pos |-> bulge_is_pos(v1),
                                   v2_bulge_is_pos |-> bulge_is_pos(v2)],
                                  i, IF self.is_closed THEN vc - 1 ELSE vc - 2)
                        result == IF self.is_closed THEN RedundantClosedEnd(self, st)
                                  ELSE RedundantOpenEnd(self, st)
                    IN IF IsSome(result) THEN Some(Polyline(result[2], self.is_closed))
                       ELSE result

-----------------------------------------------------------------------------
(* PolylineRef::rotate_start *)

\* seg_split_at_point, SplitResult { updated_start, split_vertex }: a line
\* segment splits into two lines; an arc split at one of its end points keeps
\* its whole sweep on one side.  An arc split anywhere else gets the bulges
\* tan(theta1 / 4) and tan(theta2 / 4), which are no grid values: the
\* operator is applied to the other cases only.
seg_split_at_point(v1, v2, point) ==
    IF bulge_is_zero(v1)
    THEN [updated_start |-> v1, split_vertex |-> from_vector2(point, 0)]
    ELSE IF pos(v1) = pos(v2) \/ pos(v1) = point
    THEN [updated_start |-> with_bulge(v1, 0),
          split_vertex |-> from_vector2(point, v1.bulge)]
    ELSE [updated_start |-> v1, split_vertex |-> from_vector2(pos(v2), 0)]

\* a mutant of wrapping_vertexes_starting_at: the vertexes before start are
\* left out
wrapping_vertexes_starting_at_NoWrap(self, start) ==
    SubSeq(self.vertex_data, start + 1, vertex_count(self))

\* the closure wrapping_vertexes_starting_at of rotate_start
wrapping_vertexes_starting_at(self, start) ==
    SubSeq(self.vertex_data, start + 1, vertex_count(self))
        \o SubSeq(self.vertex_data, 1, start)

\* PolylineRef::rotate_start (pos_equal_eps below the grid spacing)
rotate_start(self, start_index, point) ==
    LET vc == vertex_count(self)
    IN IF ~self.is_closed \/ vc < 2 \/ start_index > vc - 1 THEN None
       ELSE LET start_v == at(self, start_index)[2]
                next_index == next_wrapping_index(self, start_index)
                split == seg_split_at_point(start_v, at(self, next_index)[2], point)
                rotated == wrapping_vertexes_starting_at(self, next_index)
            IN IF pos(start_v) = point
               THEN Some(Polyline(wrapping_vertexes_starting_at(self, start_index), TRUE))
               ELSE IF point = pos(at(self, next_index)[2])
               THEN Some(Polyline(rotated, TRUE))
               ELSE Some(Polyline(
                        SetVec(<<split.split_vertex>> \o rotated, vc, split.updated_start),
                        TRUE))

-----------------------------------------------------------------------------
(* PolylineRef::closest_point *)

\* A point off the grid is held as (x / den, y / den), a real number as the
\* fraction num / den, den > 0; a distance is held by its square.

\* the grid point as such a point
ExactPoint(p) == [x |-> p.x, y |-> p.y, den |-> 1]

\* seg_closest_point for a line segment: the projection of point on the
\* line, clamped to the segment
seg_closest_point(v1, v2, point) ==
    LET dx == v2.x - v1.x
        dy == v2.y - v1.y
        len2 == dx * dx + dy * dy
        dot == dx * (point.x - v1.x) + dy * (point.y - v1.y)
    IN IF len2 = 0 \/ dot <= 0 THEN ExactPoint(pos(v1))
       ELSE IF dot >= len2 THEN ExactPoint(pos(v2))
       ELSE [x |-> v1.x * len2 + dot * dx, y |-> v1.y * len2 + dot * dy, den |-> len2]

\* (point - cp).length_squared()
length_squared(point, cp) ==
    [num |-> (point.x * cp.den - cp.x) * (point.x * cp.den - cp.x)
             + (point.y * cp.den - cp.y) * (point.y * cp.den - cp.y),
     den |-> cp.den * cp.den]

\* Real::max_value(): above every squared distance
Real_max_value == [num |-> 1, den |-> 0]

\* a mutant of the comparison dist2 < dist_squared: a tie replaces the result
RealLess_OrEqual(a, b) == a.num * b.den <= b.num * a.den

\* dist2 < dist_squared
RealLess(a, b) == a.num * b.den < b.num * a.den

\* Real::sqrt: the root, held by its square
sqrt(q) == [squared |-> q]

\* the for loop of closest_point over iter_segment_indexes
RECURSIVE ClosestPointLoop(_, _, _, _, _)
ClosestPointLoop(self, point, it, result, dist_squared) ==
    LET n == PlineSegIndexIterator_next(it)
    IN IF IsNone(n.item) THEN [result EXCEPT !.distance = sqrt(dist_squared)]
       ELSE LET i == n.item[2][1]
                j == n.item[2][2]
                cp == seg_closest_point(at(self, i)[2], at(self, j)[2], point)
                dist2 == length_squared(point, cp)
            IN IF RealLess(dist2, dist_squared)
               THEN ClosestPointLoop(self, point, n.iter,
                        [result EXCEPT !.seg_start_index = i, !.seg_point = cp],
                        dist2)
               ELSE ClosestPointLoop(self, point, n.iter, result, dist_squared)

\* PolylineRef::closest_point: ClosestPointResult { seg_start_index,
\* seg_point, distance } in Some, or None
closest_point(self, point) ==
    IF vertex_count(self) = 0 THEN None
    ELSE LET result == [seg_start_index |-> 0,
                        seg_point |-> ExactPoint(pos(at(self, 0)[2])),
                        distance |-> sqrt(Real_max_value)]
         IN IF vertex_count(self) = 1
            THEN Some([result EXCEPT
                          !.distance = sqrt(length_squared(point, result.seg_point))])
            ELSE Some(ClosestPointLoop(self, point, iter_segment_indexes(self),
                                       result, Real_max_value))

-----------------------------------------------------------------------------
(* PolylineRef::winding_number *)

\* core::math::is_left: point is left of the line from p0 to p1
is_left(p0, p1, point) ==
    (p1.x - p0.x) * (point.y - p0.y) - (point.x - p0.x) * (p1.y - p0.y) > 0

\* core::math::is_left_or_equal
is_left_or_equal(p0, p1, point) ==
    (p1.x - p0.x) * (point.y - p0.y) - (point.x - p0.x) * (p1.y - p0.y) >= 0

\* a mutant of process_line_winding: an upward edge that ends at the height
\* of the point is counted too
process_line_winding_EndInclusive(v1, v2, point) ==
    IF v1.y <= point.y
    THEN IF v2.y >= point.y /\ v2.y # v1.y /\ is_left(pos(v1), pos(v2), point) THEN 1 ELSE 0
    ELSE IF v2.y <= point.y /\ ~is_left(pos(v1), pos(v2), point) THEN -1
    ELSE 0

\* a mutant of process_line_winding: a downward crossing is not counted
process_line_winding_UpwardOnly(v1, v2, point) ==
    IF v1.y <= point.y /\ v2.y > point.y /\ is_left(pos(v1), pos(v2), point)
    THEN 1
    ELSE 0

\* PolylineRef::process_line_winding
process_line_winding(v1, v2, point) ==
    IF v1.y <= point.y
    THEN IF v2.y > point.y /\ is_left(pos(v1), pos(v2), point) THEN 1 ELSE 0
    ELSE IF v2.y <= point.y /\ ~is_left(pos(v1), pos(v2), point) THEN -1
    ELSE 0

\* the closure dist_to_arc_center_less_than_radius of process_arc_winding:
\* an arc of bulge +-1 is a half circle, its center the middle of the chord
\* and its radius half the chord (both sides of the comparison times four)
dist_to_arc_center_less_than_radius(v1, v2, point) ==
    (2 * point.x - v1.x - v2.x) * (2 * point.x - v1.x - v2.x)
    + (2 * point.y - v1.y - v2.y) * (2 * point.y - v1.y - v2.y)
    < (v2.x - v1.x) * (v2.x - v1.x) + (v2.y - v1.y) * (v2.y - v1.y)

\* PolylineRef::process_arc_winding
process_arc_winding(v1, v2, point) ==
    LET is_ccw == bulge_is_pos(v1)
        point_is_left == IF is_ccw THEN is_left(pos(v1), pos(v2), point)
                         ELSE is_left_or_equal(pos(v1), pos(v2), point)
        inside == dist_to_arc_center_less_than_radius(v1, v2, point)
    IN IF v1.y <= point.y
       THEN IF v2.y > point.y
            THEN IF is_ccw
                 THEN IF point_is_left THEN 1 ELSE IF inside THEN 1 ELSE 0
                 ELSE IF point_is_left /\ ~inside THEN 1 ELSE 0
            ELSE IF /\ is_ccw
                    /\ ~point_is_left
                    /\ v2.x < point.x
                    /\ point.x < v1.x
                    /\ inside
            THEN 1
            ELSE IF /\ ~is_ccw
                    /\ point_is_left
                    /\ v1.x < point.x
                    /\ point.x < v2.x
                    /\ inside
            THEN -1
            ELSE 0
       ELSE IF v2.y <= point.y
       THEN IF is_ccw
            THEN IF ~point_is_left /\ ~inside THEN -1 ELSE 0
            ELSE IF point_is_left THEN (IF inside THEN -1 ELSE 0)
            ELSE -1
       ELSE IF /\ is_ccw
               /\ ~point_is_left
               /\ v1.x < point.x
               /\ point.x < v2.x
               /\ inside
       THEN 1
       ELSE IF /\ ~is_ccw
               /\ point_is_left
               /\ v2.x < point.x
               /\ point.x < v1.x
               /\ inside
       THEN -1
       ELSE 0

\* the for loop of winding_number over iter_segments
RECURSIVE WindingLoop(_, _, _)
WindingLoop(segs, point, winding) ==
    IF segs = <<>> THEN winding
    ELSE LET v1 == Head(segs)[1]
             v2 == Head(segs)[2]
         IN WindingLoop(Tail(segs), point,
                winding + (IF bulge_is_zero(v1) THEN process_line_winding(v1, v2, point)
                           ELSE process_arc_winding(v1, v2, point)))

\* PolylineRef::winding_number
winding_number(self, point) ==
    IF ~self.is_closed \/ vertex_count(self) < 2 THEN 0
    ELSE WindingLoop(iter_segments(self), point, 0)

-----------------------------------------------------------------------------
(* extents: PolylineRef::extents and IterablePlineSegments::extents *)

(* A coordinate of a box is held in half units (the apex of a half circle    *)
(* over a chord of odd length lies between two grid lines) and next to the   *)
(* two values Real::max_value() and Real::min_value(), which lie above and   *)
(* below every coordinate: inf is 1, -1 or, for a coordinate, 0.             *)
Coord(twice) == [inf |-> 0, twice |-> twice]

Real_max == [inf |-> 1, twice |-> 0]

Real_min == [inf |-> -1, twice |-> 0]

\* a < b
CoordLess(a, b) ==
    \/ a.inf < b.inf
    \/ a.inf = 0 /\ b.inf = 0 /\ a.twice < b.twice

\* Real::min and Real::max
CoordMin(a, b) == IF CoordLess(b, a) THEN b ELSE a

CoordMax(a, b) == IF CoordLess(a, b) THEN b ELSE a

\* AABB::new
AABB(min_x, min_y, max_x, max_y) ==
    [min_x |-> min_x, min_y |-> min_y, max_x |-> max_x, max_y |-> max_y]

\* arc_seg_bounding_box for a half circle (bulge +-1) over a chord parallel
\* to an axis: the two end points and the apex, the one cardinal point of
\* the sweep; the apex lies right of the chord when the bulge is positive
arc_seg_bounding_box(v1, v2) ==
    LET dx == v2.x - v1.x
        dy == v2.y - v1.y
        apex_x == IF bulge_is_pos(v1) THEN v1.x + v2.x + dy ELSE v1.x + v2.x - dy
        apex_y == IF bulge_is_pos(v1) THEN v1.y + v2.y - dx ELSE v1.y + v2.y + dx
        xs == {2 * v1.x, 2 * v2.x, apex_x}
        ys == {2 * v1.y, 2 * v2.y, apex_y}
    IN AABB(Coord(CHOOSE m \in xs : \A o \in xs : m <= o),
            Coord(CHOOSE m \in ys : \A o \in ys : m <= o),
            Coord(CHOOSE m \in xs : \A o \in xs : m >= o),
            Coord(CHOOSE m \in ys : \A o \in ys : m >= o))

\* a mutant of ExtendBySegment: a line segment never raises the maximum
ExtendBySegment_MinOnly(result, v1, v2) ==
    [result EXCEPT !.min_x = CoordMin(result.min_x, Coord(2 * v2.x)),
                   !.min_y = CoordMin(result.min_y, Coord(2 * v2.y))]

\* the body of the for loop, the same in both extents
ExtendBySegment(result, v1, v2) ==
    IF bulge_is_zero(v1)
    THEN LET x == Coord(2 * v2.x)
             y == Coord(2 * v2.y)
             after_x == IF CoordLess(x, result.min_x) THEN [result EXCEPT !.min_x = x]
                        ELSE IF CoordLess(result.max_x, x) THEN [result EXCEPT !.max_x = x]
                        ELSE result
         IN IF CoordLess(y, after_x.min_y) THEN [after_x EXCEPT !.min_y = y]
            ELSE IF CoordLess(after_x.max_y, y) THEN [after_x EXCEPT !.max_y = y]
            ELSE after_x
    ELSE LET arc_extents == arc_seg_bounding_box(v1, v2)
         IN AABB(CoordMin(result.min_x, arc_extents.min_x),
                 CoordMin(result.min_y, arc_extents.min_y),
                 CoordMax(result.max_x, arc_extents.max_x),
                 CoordMax(result.max_y, arc_extents.max_y))

\* the for loop over iter_segments
RECURSIVE ExtentsLoop(_, _)
ExtentsLoop(segs, result) ==
    IF segs = <<>> THEN result
    ELSE ExtentsLoop(Tail(segs), ExtendBySegment(result, Head(segs)[1], Head(segs)[2]))

\* PolylineRef::extents: the box is seeded with the first vertex
extents(self) ==
    IF segment_count(self) = 0 THEN None
    ELSE LET v1 == at(self, 0)[2]
         IN Some(ExtentsLoop(iter_segments(self),
                             AABB(Coord(2 * v1.x), Coord(2 * v1.y),
                                  Coord(2 * v1.x), Coord(2 * v1.y))))

\* IterablePlineSegments::extents over the segments of the polyline: the box
\* is seeded with max_value for the minimum and min_value for the maximum
IterablePlineSegments_extents(self) ==
    IF segment_count(self) = 0 THEN None
    ELSE Some(ExtentsLoop(iter_segments(self),
                          AABB(Real_max, Real_max, Real_min, Real_min)))

-----------------------------------------------------------------------------
(* PolylineContiguousStorageMut::add_or_replace *)

\* a mutant of add_or_replace: on an equal position nothing is written
add_or_replace_BulgeKept(vd, x, y, bulge) ==
    LET ln == Len(vd)
    IN IF ln = 0 THEN Append(vd, PlineVertex(x, y, bulge))
       ELSE IF VecAt(vd, ln - 1).x = x /\ VecAt(vd, ln - 1).y = y THEN vd
       ELSE Append(vd, PlineVertex(x, y, bulge))

\* PolylineContiguousStorageMut::add_or_replace on the vertex buffer (each
\* coordinate compared with pos_equal_eps, below the grid spacing)
add_or_replace(vd, x, y, bulge) ==
    LET ln == Len(vd)
    IN IF ln = 0 THEN Append(vd, PlineVertex(x, y, bulge))
       ELSE LET last_vert == VecAt(vd, ln - 1)
            IN IF last_vert.x = x /\ last_vert.y = y
               THEN SetVec(vd, ln - 1, with_bulge(last_vert, bulge))
               ELSE Append(vd, PlineVertex(x, y, bulge))

\* PolylineContiguousStorageMut::add_or_replace_vertex
storage_add_or_replace_vertex(vd, vertex) ==
    add_or_replace(vd, vertex.x, vertex.y, vertex.bulge)

-----------------------------------------------------------------------------
(* PolylineSlice::to_polyline and PolylineSlice::stitch_onto *)

\* the visitor of both: target.add_or_replace_vertex(v) for each visited vertex
RECURSIVE AddOrReplaceAll(_, _)
AddOrReplaceAll(target, vs) ==
    IF vs = <<>> THEN target
    ELSE AddOrReplaceAll(add_or_replace_vertex(target, Head(vs)), Tail(vs))

\* a mutant of stitch_onto: the vertexes are pushed as they come
stitch_onto_Push(slice, source, target, debug_assertions) ==
    LET vs == visit_vertexes(slice, source, debug_assertions)
    IN IF IsPanic(vs) THEN Panic ELSE Ok(target \o vs[2])

\* PolylineSlice::stitch_onto: the vertex buffer of the target after the
\* call, or Panic
stitch_onto(slice, source, target, debug_assertions) ==
    LET vs == visit_vertexes(slice, source, debug_assertions)
    IN IF IsPanic(vs) THEN Panic ELSE Ok(AddOrReplaceAll(target, vs[2]))

\* PolylineSlice::to_polyline: the polyline, or Panic; the two debug_assert!
\* after the visit count in a build with debug assertions
to_polyline(slice, source, debug_assertions) ==
    LET vs == visit_vertexes(slice, source, debug_assertions)
    IN IF IsPanic(vs) THEN Panic
       ELSE LET result == Polyline(AddOrReplaceAll(<<>>, vs[2]), FALSE)
            IN IF debug_assertions /\ vertex_count(result) > PlineView_vertex_count(slice)
               THEN Panic
               ELSE IF debug_assertions /\ ~IsNone(remove_repeat_pos(result))
               THEN Panic
               ELSE Ok(result)

-----------------------------------------------------------------------------
(* OpenPlineSlice::create *)

\* OpenPlineSlice::create: the slice, or Panic; end_intersect lies on the
\* grid, so that an arc is split at one of its end points only
create(source, start_index, end_intersect, intersect_index, updated_start, traverse_count, debug_assertions) ==
    IF ~(traverse_count # 0) THEN Panic
    ELSE LET current_vertex == at(source, intersect_index)
         IN IF IsPanic(current_vertex) THEN Panic
            ELSE LET offset == traverse_count - 1
                     next_index == next_wrapping_index(source, intersect_index)
                     split == seg_split_at_point(current_vertex[2],
                                                 at(source, next_index)[2],
                                                 end_intersect)
                     end_index_offset ==
                         IF end_intersect = pos(current_vertex[2]) THEN offset
                         ELSE traverse_count
                     updated_end_bulge ==
                         IF end_intersect = pos(current_vertex[2])
                         THEN IF offset # 0
                              THEN at(source, prev_wrapping_index(source,
                                                  intersect_index))[2].bulge
                              ELSE updated_start.bulge
                         ELSE split.updated_start.bulge
                     slice == OpenPlineSlice(start_index, end_index_offset,
                                             updated_start, updated_end_bulge,
                                             end_intersect, FALSE)
                 IN DebugAssertValid(slice, source, debug_assertions)

-----------------------------------------------------------------------------
(* PolylineRef::arcs_to_approx_lines *)

\* seg_arc_radius_and_center for a half circle (bulge +-1) over a chord of
\* the x axis, in half units: the radius is half the chord, the center its
\* middle
seg_arc_radius_and_center(v1, v2) ==
    [twice_radius |-> IF v2.x >= v1.x THEN v2.x - v1.x ELSE v1.x - v2.x,
     twice_center |-> Vector2(v1.x + v2.x, v1.y + v2.y)]

\* every arc of self has a radius below error_distance: no arc is cut into
\* lines along its sweep
ArcsBelowError(self, error_distance) ==
    \A i \in 1 .. Len(iter_segments(self)) :
        LET seg == iter_segments(self)[i]
        IN bulge_is_zero(seg[1])
           \/ seg_arc_radius_and_center(seg[1], seg[2]).twice_radius < 2 * error_distance

\* the loop of arcs_to_approx_lines over the segments from segs[i] on: a line
\* adds its start vertex, an arc with a radius below error_distance its start
\* position with bulge 0.  A longer arc adds its start position and points
\* along its sweep, which are no grid values: the operator is applied to
\* polylines with ArcsBelowError only.
RECURSIVE ApproxLoop(_, _, _, _)
ApproxLoop(segs, i, error_distance, result) ==
    IF i > Len(segs) THEN result
    ELSE LET v1 == segs[i][1]
             arc == seg_arc_radius_and_center(v1, segs[i][2])
         IN IF bulge_is_zero(v1)
            THEN ApproxLoop(segs, i + 1, error_distance, Append(result, v1))
            ELSE IF arc.twice_radius < 2 * error_distance
            THEN ApproxLoop(segs, i + 1, error_distance,
                            Append(result, PlineVertex(v1.x, v1.y, 0)))
            ELSE ApproxLoop(segs, i + 1, error_distance,
                            Append(result, PlineVertex(v1.x, v1.y, 0)))

\* PolylineRef::arcs_to_approx_lines, for ArcsBelowError(self, error_distance)
arcs_to_approx_lines(self, error_distance) ==
    IF vertex_count(self) = 0 THEN Some(Polyline(<<>>, self.is_closed))
    ELSE LET result == ApproxLoop(iter_segments(self), 1, error_distance, <<>>)
         IN IF ~self.is_closed
            THEN Some(Polyline(Append(result, last(self, TRUE)[2]), self.is_closed))
            ELSE Some(Polyline(result, self.is_closed))

-----------------------------------------------------------------------------
(* PolylineRef::visit_self_intersects_opt *)

\* ControlFlow: C::continuing() and a break value
Continue == <<"Continue">>

Break == <<"Break">>

\* PlineSelfIntersectOptions { aabb_index, include }
PlineSelfIntersectOptions(aabb_index, include) == [aabb_index |-> aabb_index, include |-> include]

\* PolylineRef::create_approx_aabb_index: None below 2 vertexes, otherwise an
\* index over one box for each segment
create_approx_aabb_index(self) ==
    IF vertex_count(self) < 2 THEN None
    ELSE Some([boxes |-> Len(iter_segments(self))])

\* the frame of a call of visit_self_intersects_opt: the pass that runs (pc),
\* the passes entered and the intersects the visitor saw so far, the indexes
\* the call built itself, the number of intersects the running pass has yet to
\* report, and whether the visitor answered with a break
VisitFrame(options, pc, passes, visited, built, pending, broke) == [options |-> options, pc |-> pc, passes |-> passes, visited |-> visited, built |-> built, pending |-> pending, broke |-> broke]

\* the call enters the pass named pass, which finds pending intersects
EnterPass(frame, pass, pending) ==
    [frame EXCEPT !.pc = pass, !.passes = Append(frame.passes, pass),
                  !.pending = pending]

\* the call returns
Returned(frame) == [frame EXCEPT !.pc = "returned", !.pending = 0]

\* visit_self_intersects_opt from its entry to the first pass it enters (or
\* to its return below 2 vertexes); local_pending and global_pending are the
\* numbers of intersects the passes find
EnterVisit(self, options, local_pending, global_pending) ==
    LET frame == VisitFrame(options, "entry", <<>>, <<>>, 0, 0, FALSE)
    IN IF vertex_count(self) < 2 THEN Returned(frame)
       ELSE IF options.include = "Local"
       THEN EnterPass(frame, "local", local_pending)
       ELSE LET indexed ==
                    IF IsSome(options.aabb_index) THEN frame
                    ELSE [frame EXCEPT !.built = frame.built + 1]
            IN IF options.include = "Global"
               THEN EnterPass(indexed, "global", global_pending)
               ELSE EnterPass(indexed, "local", local_pending)

\* a mutant of AfterPass: the break of the local pass is not looked at
AfterPass_IgnoreBreak(frame, c, global_pending) ==
    IF frame.pc = "local" /\ frame.options.include = "All"
    THEN EnterPass(frame, "global", global_pending)
    ELSE Returned(frame)

\* visit_self_intersects_opt after the running pass returned c: the local
\* pass of All is under try_cf!, which returns on a break and goes on to the
\* global pass otherwise; every other pass ends the call
AfterPass(frame, c, global_pending) ==
    IF frame.pc = "local" /\ frame.options.include = "All" /\ c # Break
    THEN EnterPass(frame, "global", global_pending)
    ELSE Returned(frame)

-----------------------------------------------------------------------------
(* Spec: the life of one Polyline under its mutators *)

NoBorrow == view = NoView /\ index_iter = NoIter /\ seg_iter = NoIter

UnchangedBorrows == UNCHANGED <<view, index_iter, seg_iter, index_items, seg_items, visit>>

Init ==
    /\ vertex_data = <<>>
    /\ is_closed \in BOOLEAN
    /\ ret = NoRet
    /\ orig = NoOrig
    /\ invert_calls = 0
    /\ view = NoView
    /\ index_iter = NoIter
    /\ seg_iter = NoIter
    /\ index_items = <<>>
    /\ seg_items = <<>>
    /\ visit = NoVisit

\* Polyline::add_vertex: Vec::push
AddVertex ==
    \E v \in AxisVertexes :
        /\ Len(vertex_data) < MaxVerts
        /\ vertex_data' = Append(vertex_data, v)
        /\ ret' = Ret("add_vertex", <<>>, Unit)
        /\ orig' = NoOrig
        /\ invert_calls' = 0
        /\ UNCHANGED is_closed
        /\ UnchangedBorrows

\* Polyline::set_is_closed
SetIsClosed ==
    \E b \in BOOLEAN :
        /\ is_closed' = b
        /\ ret' = Ret("set_is_closed", <<>>, Unit)
        /\ orig' = NoOrig
        /\ invert_calls' = 0
        /\ UNCHANGED vertex_data
        /\ UnchangedBorrows

\* Polyline::clear
Clear ==
    /\ vertex_data' = <<>>
    /\ ret' = Ret("clear", <<>>, Unit)
    /\ orig' = NoOrig
    /\ invert_calls' = 0
    /\ UNCHANGED is_closed
    /\ UnchangedBorrows

\* the bookkeeping of a call that inverts the direction
InvertHistory ==
    IF invert_calls = 1
    THEN /\ invert_calls' = 2
         /\ UNCHANGED orig
    ELSE /\ invert_calls' = 1
         /\ orig' = Self

\* PolylineRefMut::invert_direction_mut
InvertDirectionMut ==
    LET r == invert_direction_mut(Self)
    IN /\ vertex_data' = r.vertex_data
       /\ is_closed' = r.is_closed
       /\ ret' = Ret("invert_direction", <<>>, Unit)
       /\ InvertHistory
       /\ UnchangedBorrows

\* PolylineContiguousStorageMut::invert_direction
InvertDirection ==
    LET r == invert_direction(Self)
    IN /\ vertex_data' = r.vertex_data
       /\ is_closed' = r.is_closed
       /\ ret' = Ret("invert_direction", <<>>, Unit)
       /\ InvertHistory
       /\ UnchangedBorrows

Next ==
    \/ AddVertex
    \/ SetIsClosed
    \/ Clear
    \/ InvertDirectionMut
    \/ InvertDirection

Spec == Init /\ [][Next]_vars

-----------------------------------------------------------------------------
(* SpecQuery: the read-only queries of PolylineRef on a polyline of the grid *)

\* every polyline of at most n vertexes over the vertex set V
Plines(V, n) == UNION {[1 .. k -> V] : k \in 0 .. n}

NoHistory ==
    /\ orig = NoOrig
    /\ invert_calls = 0
    /\ view = NoView
    /\ index_iter = NoIter
    /\ seg_iter = NoIter
    /\ index_items = <<>>
    /\ seg_items = <<>>
    /\ visit = NoVisit

InitQuery ==
    /\ vertex_data \in Plines(Vertexes, MaxVerts)
    /\ is_closed \in BOOLEAN
    /\ ret = NoRet
    /\ NoHistory

\* a call through &self changes nothing of the polyline or of its borrowers
ReadOnly ==
    UNCHANGED <<vertex_data, is_closed, orig, invert_calls, view,
                index_iter, seg_iter, index_items, seg_items, visit>>

SegmentCount ==
    /\ ret' = Ret("segment_count", <<>>, <<"Ok", segment_count(Self)>>)
    /\ ReadOnly

Last ==
    \E overflow_checks \in BOOLEAN :
        /\ ret' = Ret("last", <<>>, last(Self, overflow_checks))
        /\ ReadOnly

Area ==
    /\ ret' = Ret("area", <<>>, <<"Ok", area(Self)>>)
    /\ ReadOnly

Orientation ==
    /\ ret' = Ret("orientation", <<>>, <<"Ok", orientation(Self)>>)
    /\ ReadOnly

NextQuery ==
    \/ SegmentCount
    \/ Last
    \/ Area
    \/ Orientation

SpecQuery == InitQuery /\ [][NextQuery]_vars

-----------------------------------------------------------------------------
(* SpecIter: the two segment iterators stepped over a borrowed polyline *)

InitIter ==
    /\ vertex_data \in Plines(AxisVertexes, MaxVerts)
    /\ is_closed \in BOOLEAN
    /\ ret = NoRet
    /\ NoHistory

Exhausted(items) == items # <<>> /\ IsNone(items[Len(items)])

\* PolylineRef::iter_segment_indexes
IterSegmentIndexes ==
    /\ index_iter = NoIter
    /\ index_iter' = iter_segment_indexes(Self)
    /\ index_items' = <<>>
    /\ UNCHANGED <<vertex_data, is_closed, ret, orig, invert_calls, view,
                   seg_iter, seg_items, visit>>

\* Polyline::iter_segments
IterSegments ==
    /\ seg_iter = NoIter
    /\ seg_iter' = PlineSegIterator_new(Self)
    /\ seg_items' = <<>>
    /\ UNCHANGED <<vertex_data, is_closed, ret, orig, invert_calls, view,
                   index_iter, index_items, visit>>

\* PlineSegIndexIterator::next, called until it has answered None
IndexIterNext ==
    /\ index_iter # NoIter
    /\ ~Exhausted(index_items)
    /\ LET r == PlineSegIndexIterator_next(index_iter)
       IN /\ index_iter' = r.iter
          /\ index_items' = Append(index_items, r.item)
    /\ UNCHANGED <<vertex_data, is_closed, ret, orig, invert_calls, view,
                   seg_iter, seg_items, visit>>

\* PlineSegIterator::next, called until it has answered None
SegIterNext ==
    /\ seg_iter # NoIter
    /\ ~Exhausted(seg_items)
    /\ LET r == PlineSegIterator_next(Self, seg_iter)
       IN /\ seg_iter' = r.iter
          /\ seg_items' = Append(seg_items, r.item)
    /\ UNCHANGED <<vertex_data, is_closed, ret, orig, invert_calls, view,
                   index_iter, index_items, visit>>

NextIter ==
    \/ IterSegmentIndexes
    \/ IterSegments
    \/ IndexIterNext
    \/ SegIterNext

SpecIter == InitIter /\ [][NextIter]_vars

-----------------------------------------------------------------------------
(* Source polylines of the index and view specifications: vertex i lies at *)
(* (i, 0), so that a vertex tells the index it was read from               *)

SourceBulges == {0, 1}

SourcePlines ==
    UNION {{[i \in 1 .. k |-> PlineVertex(i - 1, 0, b[i])] :
               b \in [1 .. k -> SourceBulges]} : k \in 0 .. MaxVerts}

InitSource ==
    /\ vertex_data \in SourcePlines
    /\ is_closed \in BOOLEAN
    /\ ret = NoRet
    /\ NoHistory

\* index arguments: every valid index and two beyond the largest vertex count
Indexes == 0 .. MaxVerts + 1

-----------------------------------------------------------------------------
(* SpecIndex: the wrapping index arithmetic of PolylineRef *)

FwdWrappingIndex ==
    \E start_index \in Indexes, offset \in Indexes, debug_assertions \in BOOLEAN :
        /\ ret' = Ret("fwd_wrapping_index",
                      <<start_index, offset, debug_assertions>>,
                      fwd_wrapping_index(Self, start_index, offset,
                                         debug_assertions))
        /\ ReadOnly

FwdWrappingDist ==
    \E start_index \in Indexes, end_index \in Indexes, debug_assertions \in BOOLEAN :
        /\ ret' = Ret("fwd_wrapping_dist",
                      <<start_index, end_index, debug_assertions>>,
                      fwd_wrapping_dist(Self, start_index, end_index,
                                        debug_assertions))
        /\ ReadOnly

NextIndex ==
    \/ FwdWrappingIndex
    \/ FwdWrappingDist

SpecIndex == InitSource /\ [][NextIndex]_vars

-----------------------------------------------------------------------------
(* SpecView: get and at of a polyline and of a view borrowed over it *)

\* bulges of updated_start: an arc in either direction
UpdatedStartBulges == {-1, 1}

\* the views a caller may build over the source (the caller has to ensure the
\* source matches the slice): validate_for_source reads source.at(start_index),
\* rejects end_index_offset > vertex_count, and for end_index_offset = 0
\* requires updated_end_bulge to be the bulge of updated_start
ViewDatas(source) ==
    {d \in [start_index : 0 .. vertex_count(source) - 1,
            end_index_offset : 0 .. vertex_count(source),
            updated_start : {PlineVertex(0, 1, b) : b \in UpdatedStartBulges},
            updated_end_bulge : Bulges,
            end_point : {Vector2(1, 1)},
            inverted_direction : BOOLEAN] :
        d.end_index_offset = 0 => d.updated_end_bulge = d.updated_start.bulge}

\* PlineViewData::view
CreateView ==
    /\ view = NoView
    /\ \E d \in ViewDatas(Self) : view' = d
    /\ UNCHANGED <<vertex_data, is_closed, ret, orig, invert_calls,
                   index_iter, seg_iter, index_items, seg_items, visit>>

Get ==
    \E index \in Indexes :
        /\ ret' = Ret("get", <<index>>, get(Self, index))
        /\ ReadOnly

At ==
    \E index \in Indexes :
        /\ ret' = Ret("at", <<index>>, at(Self, index))
        /\ ReadOnly

\* view index arguments: two beyond the largest view vertex count
ViewIndexes == 0 .. MaxVerts + 3

ViewGet ==
    /\ view # NoView
    /\ \E index \in ViewIndexes, debug_assertions \in BOOLEAN :
          ret' = Ret("view_get", <<index>>,
                     PlineView_get(view, Self, index, debug_assertions))
    /\ ReadOnly

ViewAt ==
    /\ view # NoView
    /\ \E index \in ViewIndexes, debug_assertions \in BOOLEAN :
          ret' = Ret("view_at", <<index>>,
                     PlineView_at(view, Self, index, debug_assertions))
    /\ ReadOnly

ViewVertexCount ==
    /\ view # NoView
    /\ ret' = Ret("view_vertex_count", <<>>, Ok(PlineView_vertex_count(view)))
    /\ ReadOnly

ViewIsClosed ==
    /\ view # NoView
    /\ ret' = Ret("view_is_closed", <<>>, Ok(PlineView_is_closed(view)))
    /\ ReadOnly

NextView ==
    \/ CreateView
    \/ Get
    \/ At
    \/ ViewGet
    \/ ViewAt
    \/ ViewVertexCount
    \/ ViewIsClosed

SpecView == InitSource /\ [][NextView]_vars

-----------------------------------------------------------------------------
(* SpecSlice: slices built over a source polyline on the x axis *)

SliceSourceVertexes == [x : Xs, y : {0}, bulge : SourceBulges]

InitSlice ==
    /\ vertex_data \in Plines(SliceSourceVertexes, MaxVerts)
    /\ is_closed \in BOOLEAN
    /\ ret = NoRet
    /\ NoHistory

\* the arguments that describe a slice on the single source segment
\* start_index: updated_start and end_intersect lie on that segment and
\* end_intersect does not lie before updated_start
SingleSegmentArgs(source) ==
    {a \in [start_index : 0 .. segment_count(source) - 1,
            updated_start : [x : Xs, y : {0}, bulge : UpdatedStartBulges],
            end_intersect : AxisPoints] :
        LET v1 == at(source, a.start_index)[2]
            v2 == at(source, next_wrapping_index(source, a.start_index))[2]
        IN /\ point_is_on_segment(source, a.start_index, pos(a.updated_start))[2]
           /\ point_is_on_segment(source, a.start_index, a.end_intersect)[2]
           /\ (a.end_intersect.x - a.updated_start.x) * (v2.x - v1.x)
              + (a.end_intersect.y - a.updated_start.y) * (v2.y - v1.y) >= 0
           /\ pos(v1) = pos(v2) => pos(a.updated_start) = a.end_intersect}

\* the slice was just built: each slice is queried once
SliceJustBuilt ==
    /\ view # NoView
    /\ ret.op \in {"from_entire_pline", "create_on_single_segment"}

\* debug_assertions of the build that built the slice: the queries run in
\* the same build
SliceBuild == ret.args[Len(ret.args)]

SliceUnchanged ==
    UNCHANGED <<vertex_data, is_closed, orig, invert_calls,
                index_iter, seg_iter, index_items, seg_items, visit>>

FromEntirePline ==
    /\ view = NoView
    /\ ret.op = "none"
    /\ \E debug_assertions \in BOOLEAN :
          LET r == from_entire_pline(Self, debug_assertions)
          IN /\ ret' = Ret("from_entire_pline", <<debug_assertions>>, r)
             /\ view' = IF IsOk(r) THEN r[2] ELSE NoView
    /\ SliceUnchanged

CreateOnSingleSegment ==
    /\ view = NoView
    /\ ret.op = "none"
    /\ \E a \in SingleSegmentArgs(Self), debug_assertions \in BOOLEAN :
          LET r == create_on_single_segment(Self, a.start_index, a.updated_start,
                                            a.end_intersect, debug_assertions)
          IN /\ ret' = Ret("create_on_single_segment",
                           <<a.start_index, a.updated_start, a.end_intersect,
                             debug_assertions>>, r)
             /\ view' = IF IsSome(r) THEN r[2] ELSE NoView
    /\ SliceUnchanged

VisitVertexes ==
    /\ SliceJustBuilt
    /\ ret' = Ret("visit_vertexes", <<>>, visit_vertexes(view, Self, SliceBuild))
    /\ ReadOnly

\* target path lengths: a negative one, zero, and lengths within and beyond
\* the slices of the model
TargetPathLengths == {-1, 0, 1, 2, 3}

FindPointAtPathLength ==
    /\ SliceJustBuilt
    /\ \E target_path_length \in TargetPathLengths :
          ret' = Ret("find_point_at_path_length", <<target_path_length>>,
                     find_point_at_path_length(view, Self, target_path_length,
                                               SliceBuild))
    /\ ReadOnly

\* the arguments from_slice_points hands to create, and the same with a
\* traverse_count of 0: updated_start lies on the segment start_index,
\* end_intersect on the segment intersect_index (on the last vertex when an
\* open source has no such segment), traverse_count segments lie between
CreateArgs(source) ==
    {a \in [start_index : 0 .. segment_count(source) - 1,
            end_intersect : AxisPoints,
            intersect_index : 0 .. vertex_count(source) - 1,
            updated_start : [x : Xs, y : {0}, bulge : UpdatedStartBulges],
            traverse_count : 0 .. vertex_count(source)] :
        /\ point_is_on_segment(source, a.start_index, pos(a.updated_start))[2]
        /\ IF a.intersect_index < segment_count(source)
           THEN point_is_on_segment(source, a.intersect_index, a.end_intersect)[2]
           ELSE a.end_intersect = pos(at(source, a.intersect_index)[2])
        /\ a.traverse_count \in
              {0, fwd_wrapping_dist(source, a.start_index, a.intersect_index, FALSE)[2]}}

Create ==
    /\ view = NoView
    /\ ret.op = "none"
    /\ \E a \in CreateArgs(Self), debug_assertions \in BOOLEAN :
          LET r == create(Self, a.start_index, a.end_intersect, a.intersect_index,
                          a.updated_start, a.traverse_count, debug_assertions)
          IN /\ ret' = Ret("create",
                           <<a.start_index, a.end_intersect, a.intersect_index,
                             a.updated_start, a.traverse_count, debug_assertions>>, r)
             /\ view' = IF IsOk(r) THEN r[2] ELSE NoView
    /\ SliceUnchanged

ToPolyline ==
    /\ SliceJustBuilt
    /\ ret' = Ret("to_polyline", <<SliceBuild>>, to_polyline(view, Self, SliceBuild))
    /\ ReadOnly

\* stitch_onto with an empty target
StitchOnto ==
    /\ SliceJustBuilt
    /\ ret' = Ret("stitch_onto", <<SliceBuild>>, stitch_onto(view, Self, <<>>, SliceBuild))
    /\ ReadOnly

NextSlice ==
    \/ FromEntirePline
    \/ CreateOnSingleSegment
    \/ Create
    \/ VisitVertexes
    \/ FindPointAtPathLength
    \/ ToPolyline
    \/ StitchOnto

SpecSlice == InitSlice /\ [][NextSlice]_vars

-----------------------------------------------------------------------------
(* SpecRepeat: remove_repeat_pos on a polyline of the x axis *)

RemoveRepeatPos ==
    /\ ret' = Ret("remove_repeat_pos", <<>>, remove_repeat_pos(Self))
    /\ ReadOnly

NextRepeat == RemoveRepeatPos

SpecRepeat == InitIter /\ [][NextRepeat]_vars

-----------------------------------------------------------------------------
(* SpecRedundant: remove_redundant on line-only polylines of a grid wide    *)
(* enough for three collinear vertexes                                      *)

LineVertexes == [x : 0 .. MaxCoord + 1, y : Ys, bulge : {0}]

InitRedundant ==
    /\ vertex_data \in Plines(LineVertexes, MaxVerts + 1)
    /\ is_closed \in BOOLEAN
    /\ ret = NoRet
    /\ NoHistory

RemoveRedundant ==
    /\ ret.op = "none"
    /\ ret' = Ret("remove_redundant", <<>>, remove_redundant(Self))
    /\ ReadOnly

\* a second call, on the polyline the caller holds after the first: the
\* returned polyline, or the input when the first call reported no change
RemoveRedundantAgain ==
    /\ ret.op = "remove_redundant"
    /\ ~IsPanic(ret.res)
    /\ LET held == IF IsSome(ret.res) THEN ret.res[2] ELSE Self
       IN ret' = Ret("remove_redundant_again", <<held>>, remove_redundant(held))
    /\ ReadOnly

NextRedundant ==
    \/ RemoveRedundant
    \/ RemoveRedundantAgain

SpecRedundant == InitRedundant /\ [][NextRedundant]_vars

-----------------------------------------------------------------------------
(* SpecRotate: rotate_start on polylines of the x axis, lines and arcs, to  *)
(* the points of the grid                                                   *)

RotateVertexes == [x : Xs, y : {0}, bulge : SourceBulges]

GridPoints == [x : Xs, y : Ys]

InitRotate ==
    /\ vertex_data \in Plines(RotateVertexes, MaxVerts)
    /\ is_closed \in BOOLEAN
    /\ ret = NoRet
    /\ NoHistory

\* the split of rotate_start, if it comes to one, has bulges of the grid: the
\* segment at start_index is a line
SplitOnGrid(self, start_index) ==
    start_index < vertex_count(self) => bulge_is_zero(at(self, start_index)[2])

\* the point is on top of the vertex at start_index or of the one after it
OnSegmentEnd(self, start_index, point) ==
    /\ start_index < vertex_count(self)
    /\ \/ point = pos(at(self, start_index)[2])
       \/ point = pos(at(self, next_wrapping_index(self, start_index))[2])

RotateStart ==
    /\ ret.op = "none"
    /\ \E start_index \in 0 .. MaxVerts, point \in GridPoints :
           /\ SplitOnGrid(Self, start_index) \/ OnSegmentEnd(Self, start_index, point)
           /\ ret' = Ret("rotate_start", <<start_index, point>>,
                         rotate_start(Self, start_index, point))
    /\ ReadOnly

NextRotate == RotateStart

SpecRotate == InitRotate /\ [][NextRotate]_vars

-----------------------------------------------------------------------------
(* SpecClosest: closest_point on line-only polylines of the grid, from the  *)
(* points of the grid and of the ring around it                             *)

ClosestVertexes == [x : Xs, y : Ys, bulge : {0}]

RingPoints == [x : -1 .. MaxCoord + 1, y : -1 .. 2]

InitClosest ==
    /\ vertex_data \in Plines(ClosestVertexes, MaxVerts)
    /\ is_closed \in BOOLEAN
    /\ ret = NoRet
    /\ NoHistory

ClosestPoint ==
    /\ ret.op = "none"
    /\ \E point \in RingPoints :
           ret' = Ret("closest_point", <<point>>, closest_point(Self, point))
    /\ ReadOnly

NextClosest == ClosestPoint

SpecClosest == InitClosest /\ [][NextClosest]_vars

-----------------------------------------------------------------------------
(* SpecWinding: winding_number and area of line-only polylines of the grid  *)
(* of three by three points, the smallest with a point inside a polygon,    *)
(* before and after invert_direction_mut                                    *)

WindingPoints == [x : 0 .. 2, y : 0 .. 2]

WindingVertexes == [x : 0 .. 2, y : 0 .. 2, bulge : {0}]

InitWinding ==
    /\ vertex_data \in Plines(WindingVertexes, MaxVerts + 1)
    /\ is_closed \in BOOLEAN
    /\ ret = NoRet
    /\ NoHistory

\* no query was answered yet on the polyline as it is now
NotQueried == ret.op \in {"none", "invert_direction"}

WindingNumber ==
    /\ NotQueried
    /\ \E point \in WindingPoints :
           ret' = Ret("winding_number", <<point>>, winding_number(Self, point))
    /\ ReadOnly

WindingArea ==
    /\ NotQueried
    /\ ret' = Ret("area", <<>>, area(Self))
    /\ ReadOnly

\* invert_direction_mut, once, on a closed polyline
WindingInvert ==
    /\ ret.op = "none"
    /\ is_closed
    /\ vertex_data' = invert_direction_mut(Self).vertex_data
    /\ is_closed' = invert_direction_mut(Self).is_closed
    /\ ret' = Ret("invert_direction", <<>>, Unit)
    /\ orig' = Self
    /\ invert_calls' = 1
    /\ UnchangedBorrows

NextWinding ==
    \/ WindingNumber
    \/ WindingArea
    \/ WindingInvert

SpecWinding == InitWinding /\ [][NextWinding]_vars

-----------------------------------------------------------------------------
(* SpecExtents: the two extents on line-only polylines of the grid and on   *)
(* polylines of the x axis with half-circle arcs                            *)

ExtentsLineVertexes == [x : Xs, y : Ys, bulge : {0}]

InitExtents ==
    /\ vertex_data \in Plines(ExtentsLineVertexes, MaxVerts) \cup Plines(AxisVertexes, MaxVerts)
    /\ is_closed \in BOOLEAN
    /\ ret = NoRet
    /\ NoHistory

Extents ==
    /\ ret.op = "none"
    /\ ret' = Ret("extents", <<>>, extents(Self))
    /\ ReadOnly

SegmentsExtents ==
    /\ ret.op = "none"
    /\ ret' = Ret("segments_extents", <<>>, IterablePlineSegments_extents(Self))
    /\ ReadOnly

NextExtents ==
    \/ Extents
    \/ SegmentsExtents

SpecExtents == InitExtents /\ [][NextExtents]_vars

-----------------------------------------------------------------------------
(* SpecBuild: a polyline built from nothing by add_or_replace_vertex, through *)
(* PolylineRefMut and through the contiguous storage                         *)

InitBuild ==
    /\ vertex_data = <<>>
    /\ is_closed \in BOOLEAN
    /\ ret = NoRet
    /\ NoHistory

\* what a building call leaves alone; orig keeps the polyline before the call
BuildFrame ==
    /\ orig' = Self
    /\ UNCHANGED <<is_closed, invert_calls>>
    /\ UnchangedBorrows

\* PolylineRefMut::add_or_replace_vertex
AddOrReplaceVertex ==
    \E v \in AxisVertexes :
        /\ Len(add_or_replace_vertex(vertex_data, v)) <= MaxVerts
        /\ vertex_data' = add_or_replace_vertex(vertex_data, v)
        /\ ret' = Ret("add_or_replace_vertex", <<v>>, Unit)
        /\ BuildFrame

\* PolylineContiguousStorageMut::add_or_replace_vertex
StorageAddOrReplaceVertex ==
    \E v \in AxisVertexes :
        /\ Len(storage_add_or_replace_vertex(vertex_data, v)) <= MaxVerts
        /\ vertex_data' = storage_add_or_replace_vertex(vertex_data, v)
        /\ ret' = Ret("add_or_replace", <<v>>, Unit)
        /\ BuildFrame

NextBuild ==
    \/ AddOrReplaceVertex
    \/ StorageAddOrReplaceVertex

SpecBuild == InitBuild /\ [][NextBuild]_vars

-----------------------------------------------------------------------------
(* SpecApprox: arcs_to_approx_lines on a polyline of the x axis *)

\* error distances: none, one below and one above every arc radius of the grid
ErrorDistances == {0, 1, MaxCoord + 1}

InitApprox ==
    /\ vertex_data \in Plines(AxisVertexes, MaxVerts)
    /\ is_closed \in BOOLEAN
    /\ ret = NoRet
    /\ NoHistory

ArcsToApproxLines ==
    /\ ret.op = "none"
    /\ \E error_distance \in ErrorDistances :
          /\ ArcsBelowError(Self, error_distance)
          /\ ret' = Ret("arcs_to_approx_lines", <<error_distance>>,
                        arcs_to_approx_lines(Self, error_distance))
    /\ ReadOnly

NextApprox ==
    \/ ArcsToApproxLines

SpecApprox == InitApprox /\ [][NextApprox]_vars

-----------------------------------------------------------------------------
(* SpecVisit: one call of visit_self_intersects_opt, the visitor called for *)
(* each intersect a pass reports                                            *)

\* the most intersects one pass reports
MaxIntersects == 2

SelfIntersectsInclude == {"All", "Local", "Global"}

VisitVertexChoices == [x : Xs, y : {0}, bulge : {0}]

InitVisit ==
    /\ vertex_data \in Plines(VisitVertexChoices, MaxVerts)
    /\ is_closed \in BOOLEAN
    /\ ret = NoRet
    /\ NoHistory

VisitUnchanged ==
    UNCHANGED <<vertex_data, is_closed, orig, invert_calls, view,
                index_iter, seg_iter, index_items, seg_items>>

\* the value the call returns once its frame is at "returned"
VisitReturn(frame, c) ==
    IF frame.pc = "returned"
    THEN Ret("visit_self_intersects_opt", <<frame.options>>, c)
    ELSE ret

\* the call is made; it runs up to its first pass
VisitSelfIntersectsOpt ==
    /\ visit = NoVisit
    /\ \E include \in SelfIntersectsInclude,
          aabb_index \in {None, create_approx_aabb_index(Self)},
          local_pending \in 0 .. MaxIntersects,
          global_pending \in 0 .. MaxIntersects :
          LET frame == EnterVisit(Self, PlineSelfIntersectOptions(aabb_index, include),
                                  local_pending, global_pending)
          IN /\ visit' = frame
             /\ ret' = VisitReturn(frame, Continue)
    /\ VisitUnchanged

\* the running pass hands an intersect to the visitor; on a break the pass
\* returns the break at once
VisitIntr ==
    /\ visit # NoVisit
    /\ visit.pc \in {"local", "global"}
    /\ visit.pending > 0
    /\ \E c \in {Continue, Break}, global_pending \in 0 .. MaxIntersects :
          LET seen == [visit EXCEPT !.visited = Append(visit.visited, visit.pc),
                                    !.pending = visit.pending - 1,
                                    !.broke = visit.broke \/ c = Break]
              frame == IF c = Break THEN AfterPass(seen, Break, global_pending)
                       ELSE seen
          IN /\ visit' = frame
             /\ ret' = VisitReturn(frame, c)
    /\ VisitUnchanged

\* the running pass has reported all it found and returns the continuing value
PassReturns ==
    /\ visit # NoVisit
    /\ visit.pc \in {"local", "global"}
    /\ visit.pending = 0
    /\ \E global_pending \in 0 .. MaxIntersects :
          LET frame == AfterPass(visit, Continue, global_pending)
          IN /\ visit' = frame
             /\ ret' = VisitReturn(frame, Continue)
    /\ VisitUnchanged

NextVisit ==
    \/ VisitSelfIntersectsOpt
    \/ VisitIntr
    \/ PassReturns

SpecVisit == InitVisit /\ [][NextVisit]_vars

-----------------------------------------------------------------------------
(* Claims about invert_direction *)

\* a segment as the claims speak of it: its two end positions and its bulge
SegOf(item) == [p1 |-> pos(item[1]), p2 |-> pos(item[2]), bulge |-> item[1].bulge]

ReversedSeg(s) == [p1 |-> s.p2, p2 |-> s.p1, bulge |-> 0 - s.bulge]

SegList(self) ==
    LET items == iter_segments(self)
    IN [k \in 1 .. Len(items) |-> SegOf(items[k])]

\* the list of segments of self, in reverse order, each one reversed
ReversedSegList(self) ==
    LET l == SegList(self)
    IN [k \in 1 .. Len(l) |-> ReversedSeg(l[Len(l) + 1 - k])]

RotateLeft(l) == IF l = <<>> THEN l ELSE Tail(l) \o <<Head(l)>>

\* C3: applying invert_direction twice yields a polyline equal to the
\* original in every vertex position and every vertex bulge (open or closed,
\* the last vertex's bulge included).
C3_InvertRoundTrip ==
    invert_calls = 2 => Self = orig

\* the part of the round trip the code keeps: everything of a closed polyline,
\* and everything but the last vertex's bulge of an open one
InvertRoundTripButLastBulge ==
    invert_calls = 2 =>
        /\ is_closed = orig.is_closed
        /\ Len(vertex_data) = Len(orig.vertex_data)
        /\ \A k \in 1 .. Len(vertex_data) :
              /\ pos(vertex_data[k]) = pos(orig.vertex_data[k])
              /\ (is_closed \/ k < Len(vertex_data)) =>
                    vertex_data[k].bulge = orig.vertex_data[k].bulge

InvertFrame ==
    /\ is_closed = orig.is_closed
    /\ Len(vertex_data) = Len(orig.vertex_data)
    /\ \A k \in 0 .. Len(vertex_data) - 1 :
          pos(VecAt(vertex_data, k)) =
              pos(VecAt(orig.vertex_data, Len(vertex_data) - 1 - k))

\* C4 as stated: after invert_direction of a polyline of n >= 2 vertexes,
\* vertex k has the position of original vertex n-1-k, count and closed flag
\* are unchanged, and the list of result segments is the reversed list of
\* original segments (each with its ends swapped and its bulge negated).
C4_InvertReversesSegmentList ==
    (invert_calls = 1 /\ Len(orig.vertex_data) >= 2) =>
        /\ InvertFrame
        /\ SegList(Self) = ReversedSegList(orig)

\* C4 amended: as C4, but for a closed polyline the list of result segments
\* is the reversed list of original segments rotated by one place, the
\* reversed wrap segment staying last; for an open polyline it is the
\* reversed list itself.
C4_InvertReversesSegments ==
    (invert_calls = 1 /\ Len(orig.vertex_data) >= 2) =>
        /\ InvertFrame
        /\ SegList(Self) =
              IF is_closed THEN RotateLeft(ReversedSegList(orig))
              ELSE ReversedSegList(orig)

\* C4 witness: a closed three-vertex polyline with an arc on its wrap segment
\* and distinct end positions has been inverted
C4_Witness ==
    /\ invert_calls = 1
    /\ is_closed
    /\ Len(orig.vertex_data) = 3
    /\ orig.vertex_data[3].bulge = 1
    /\ orig.vertex_data[1].bulge = -1
    /\ pos(orig.vertex_data[1]) # pos(orig.vertex_data[3])

-----------------------------------------------------------------------------
(* Claims about the queries *)

\* C1: segment_count() returns 0 if n < 2, n-1 if n >= 2 and the polyline is
\* open, and n if n >= 2 and the polyline is closed.
C1_SegmentCount ==
    ret.op = "segment_count" =>
        LET n == Len(vertex_data)
        IN /\ (n < 2 => ret.res = <<"Ok", 0>>)
           /\ (n >= 2 /\ ~is_closed => ret.res = <<"Ok", n - 1>>)
           /\ (n >= 2 /\ is_closed => ret.res = <<"Ok", n>>)

\* C1 witness: segment_count was called on a closed polyline of three vertexes
C1_Witness ==
    /\ ret.op = "segment_count"
    /\ is_closed
    /\ Len(vertex_data) = 3
    /\ ret.res = <<"Ok", 3>>

\* C5 as stated: for a closed polyline area() > 0 iff orientation() is
\* CounterClockwise and area() < 0 iff it is Clockwise; for an open polyline
\* area() is 0 and orientation() is Open.
C5_AreaSignIffOrientation ==
    ret.op = "orientation" =>
        LET a == SignOfReal4(area(Self))
            o == ret.res[2]
        IN IF is_closed
           THEN /\ (a > 0 <=> o = "CounterClockwise")
                /\ (a < 0 <=> o = "Clockwise")
           ELSE /\ area(Self) = Real4(0, 0)
                /\ o = "Open"

\* C5 amended: for a closed polyline orientation() is Clockwise iff
\* area() < 0 and CounterClockwise otherwise, so area() > 0 implies
\* CounterClockwise and a closed polyline of area 0 is reported
\* CounterClockwise; for an open polyline area() is 0 and orientation() is Open.
C5_OrientationFromAreaSign ==
    ret.op = "orientation" =>
        LET a == SignOfReal4(area(Self))
            o == ret.res[2]
        IN IF is_closed
           THEN /\ (a < 0 <=> o = "Clockwise")
                /\ (a >= 0 <=> o = "CounterClockwise")
           ELSE /\ area(Self) = Real4(0, 0)
                /\ o = "Open"

\* C5 witness: orientation() was called on a closed line-only triangle of
\* negative area and answered Clockwise
C5_Witness ==
    /\ ret.op = "orientation"
    /\ is_closed
    /\ Len(vertex_data) = 3
    /\ \A k \in 1 .. 3 : vertex_data[k].bulge = 0
    /\ area(Self).q < 0
    /\ ret.res = <<"Ok", "Clockwise">>

\* C7: last() returns the vertex at index vertex_count()-1 when the polyline
\* is non-empty, and returns None, without panicking, when it is empty.
C7_LastOfEmptyIsNone ==
    ret.op = "last" =>
        IF Len(vertex_data) > 0
        THEN ret.res = Some(vertex_data[Len(vertex_data)])
        ELSE ret.res = None

-----------------------------------------------------------------------------
(* Claims about the segment iterators *)

\* the index pairs the claim lists for n vertexes: (0,1), (1,2), ..., ending
\* with (n-1, 0) when closed and (n-2, n-1) when open; nothing for n < 2
ExpectedIndexPairs(n, closed) ==
    IF n < 2 THEN <<>>
    ELSE [k \in 1 .. (IF closed THEN n ELSE n - 1) |->
             IF k = n THEN <<n - 1, 0>> ELSE <<k - 1, k>>]

\* the items an exhausted iterator yielded before its None
Yielded(items) == [k \in 1 .. Len(items) - 1 |-> items[k][2]]

\* C2: for n >= 2 both segment iterators yield exactly segment_count() pairs,
\* in order (0,1),(1,2),..., the last pair being (n-1,0) iff the polyline is
\* closed (otherwise (n-2,n-1)); for n < 2 they yield nothing; and the k-th
\* pair of iter_segments is (at(i), at(j)) for the k-th index pair (i, j).
C2_SegmentIterators ==
    LET n == Len(vertex_data)
        expected == ExpectedIndexPairs(n, is_closed)
    IN /\ Exhausted(index_items) =>
            /\ Yielded(index_items) = expected
            /\ Len(Yielded(index_items)) = segment_count(Self)
            /\ n >= 2 =>
                  (Yielded(index_items)[Len(expected)] = <<n - 1, 0>> <=> is_closed)
       /\ Exhausted(seg_items) =>
            /\ Len(Yielded(seg_items)) = segment_count(Self)
            /\ \A k \in 1 .. Len(expected) :
                  Yielded(seg_items)[k] =
                      <<at(Self, expected[k][1])[2], at(Self, expected[k][2])[2]>>
       /\ (index_iter # NoIter /\ ~Exhausted(index_items)) =>
            \A k \in 1 .. Len(index_items) :
                k <= Len(expected) /\ index_items[k] = Some(expected[k])
       /\ (seg_iter # NoIter /\ ~Exhausted(seg_items)) =>
            \A k \in 1 .. Len(seg_items) :
                /\ k <= Len(expected)
                /\ seg_items[k] =
                      Some(<<at(Self, expected[k][1])[2], at(Self, expected[k][2])[2]>>)

\* C2 witness: both iterators ran to their end over a closed polyline of three
\* vertexes, the last two at different positions
C2_Witness ==
    /\ is_closed
    /\ Len(vertex_data) = 3
    /\ pos(vertex_data[3]) # pos(vertex_data[1])
    /\ Exhausted(index_items)
    /\ Exhausted(seg_items)
    /\ Len(seg_items) = 4

-----------------------------------------------------------------------------
(* Claims about get, at and the wrapping index arithmetic *)

\* what get and at answered, for a polyline and for a view
GetAndAtAnswers ==
    LET n == Len(vertex_data)
        i == ret.args[1]
    IN /\ ret.op = "get" =>
            ret.res = (IF i < n THEN Some(vertex_data[i + 1]) ELSE None)
       /\ ret.op = "at" =>
            /\ i < n => ret.res = Ok(get(Self, i)[2])
            /\ i >= n => ret.res = Panic
       /\ ret.op = "view_get" =>
            /\ i < view.end_index_offset + 2 => IsSome(ret.res)
            /\ i >= view.end_index_offset + 2 => ret.res = None
       /\ ret.op = "view_at" =>
            /\ i < view.end_index_offset + 2 =>
                  \A debug_assertions \in BOOLEAN :
                      LET g == PlineView_get(view, Self, i, debug_assertions)
                      IN IsSome(g) /\ ret.res = Ok(g[2])
            /\ i >= view.end_index_offset + 2 => ret.res = Panic

\* C6: get(i) never aborts: for a polyline or a view (whose data match the
\* source) with vertex count n it returns the vertex when i < n and None when
\* i >= n, leaving the polyline unchanged; at(i) returns the same vertex as
\* get(i) when i < n and panics when i >= n.
C6_GetNeverAbortsAtPanics ==
    /\ []GetAndAtAnswers
    /\ [][ret'.op \in {"get", "at", "view_get", "view_at"} =>
            UNCHANGED <<vertex_data, is_closed>>]_vars

\* C6 witness: over one view, at panicked one past the last view vertex while
\* the source polyline holds fewer vertexes than the view
C6_Witness ==
    /\ view # NoView
    /\ ret.op = "view_at"
    /\ ret.args[1] = view.end_index_offset + 2
    /\ ret.res = Panic
    /\ Len(vertex_data) < view.end_index_offset + 2
    /\ view.end_index_offset >= 2

\* C8: for vertex count vc >= 1, start < vc and offset <= vc,
\* fwd_wrapping_index(start, offset) is (start + offset) mod vc, a valid index;
\* for i, j < vc, fwd_wrapping_dist(i, j) is in [0, vc) and
\* fwd_wrapping_index(i, fwd_wrapping_dist(i, j)) is j.
C8_FwdWrapping ==
    LET vc == Len(vertex_data)
        a == ret.args[1]
        b == ret.args[2]
    IN /\ (ret.op = "fwd_wrapping_index" /\ vc >= 1 /\ a < vc /\ b <= vc) =>
            /\ ret.res = Ok((a + b) % vc)
            /\ ret.res[2] < vc
       /\ (ret.op = "fwd_wrapping_dist" /\ a < vc /\ b < vc) =>
            /\ IsOk(ret.res)
            /\ ret.res[2] >= 0
            /\ ret.res[2] < vc
            /\ \A debug_assertions \in BOOLEAN :
                  fwd_wrapping_index(Self, a, ret.res[2], debug_assertions) = Ok(b)

\* C8 witness: a distance that wraps past the last vertex was computed
C8_Witness ==
    /\ ret.op = "fwd_wrapping_dist"
    /\ Len(vertex_data) = 3
    /\ ret.args[1] = 2
    /\ ret.args[2] = 1
    /\ ret.res = Ok(2)

-----------------------------------------------------------------------------
(* Claims about views *)

\* the vertex of a view asked for by the last get or at of the view
ViewAnswer == IF ret.op = "view_get" THEN ret.res ELSE Some(ret.res[2])

\* source index (start_index + k) wrapping
WrappedIndex(k) == (view.start_index + k) % Len(vertex_data)

\* C9: a view that is not inverted has at view index k: updated_start if
\* k = 0; the source vertex at (start_index + k) wrapping, unmodified, if
\* 1 <= k < end_index_offset; the source vertex at (start_index +
\* end_index_offset) wrapping with its bulge replaced by updated_end_bulge if
\* k = end_index_offset and k >= 1; end_point with bulge 0 if
\* k = end_index_offset + 1.
C9_ForwardViewVertexes ==
    (/\ ret.op \in {"view_get", "view_at"}
     /\ ~view.inverted_direction
     /\ ret.args[1] <= view.end_index_offset + 1) =>
        LET k == ret.args[1]
            eio == view.end_index_offset
        IN /\ ~IsPanic(ret.res)
           /\ k = 0 => ViewAnswer = Some(view.updated_start)
           /\ (1 <= k /\ k < eio) =>
                 ViewAnswer = Some(vertex_data[WrappedIndex(k) + 1])
           /\ (k = eio /\ k >= 1) =>
                 ViewAnswer = Some([vertex_data[WrappedIndex(eio) + 1] EXCEPT
                                       !.bulge = view.updated_end_bulge])
           /\ k = eio + 1 =>
                 ViewAnswer = Some(PlineVertex(view.end_point.x,
                                               view.end_point.y, 0))

\* C9 witness: the end vertex of a wrapping view was read, and its source
\* bulge differs from updated_end_bulge
C9_Witness ==
    /\ view # NoView
    /\ ret.op = "view_get"
    /\ ~view.inverted_direction
    /\ ret.args[1] = view.end_index_offset
    /\ view.end_index_offset >= 2
    /\ view.start_index + view.end_index_offset >= Len(vertex_data)
    /\ vertex_data[WrappedIndex(view.end_index_offset) + 1].bulge
           # view.updated_end_bulge

\* C10: every view, inverted or not, over an open or closed source, reports
\* vertex_count() = end_index_offset + 2 and is_closed() = false, and get(k)
\* yields a vertex for exactly the indexes 0 <= k <= end_index_offset + 1.
C10_ViewShape ==
    /\ ret.op = "view_vertex_count" => ret.res = Ok(view.end_index_offset + 2)
    /\ ret.op = "view_is_closed" => ret.res = Ok(FALSE)
    /\ ret.op = "view_get" =>
          /\ ~IsPanic(ret.res)
          /\ IsSome(ret.res) <=> ret.args[1] <= view.end_index_offset + 1
          /\ IsSome(ret.res) <=> ret.args[1] < PlineView_vertex_count(view)

\* C10 witness: an inverted view over a closed source answered vertex_count
C10_Witness ==
    /\ view # NoView
    /\ view.inverted_direction
    /\ is_closed
    /\ view.end_index_offset = Len(vertex_data)
    /\ ret.op = "view_vertex_count"
    /\ ret.res = Ok(Len(vertex_data) + 2)

\* the same view data with inverted_direction cleared
ForwardOf(view_data) == [view_data EXCEPT !.inverted_direction = FALSE]

\* vertex k of the view over the polyline that is not inverted
ForwardVertex(k) == PlineView_get(ForwardOf(view), Self, k, TRUE)[2]

-----------------------------------------------------------------------------
(* Claims about slices *)

\* the vertexes the slice from_entire_pline returned materializes
EntireVertexes == visit_vertexes(ret.res[2], Self, ret.args[1])[2]

\* what from_entire_pline answered for a source of at least two vertexes
EntirePlineCovers ==
    LET n == Len(vertex_data)
    IN /\ IsOk(ret.res)
       /\ ~is_closed =>
             /\ Len(EntireVertexes) = n
             /\ \A k \in 1 .. n : pos(EntireVertexes[k]) = pos(vertex_data[k])
             /\ \A k \in 1 .. n - 1 : EntireVertexes[k].bulge = vertex_data[k].bulge
             /\ EntireVertexes[n].bulge = 0
       /\ is_closed =>
             /\ Len(EntireVertexes) = n + 1
             /\ \A k \in 1 .. n : EntireVertexes[k] = vertex_data[k]
             /\ EntireVertexes[n + 1] = with_bulge(vertex_data[1], 0)

\* C12: from_entire_pline(source) covers the whole polyline: an open source
\* with n >= 2 vertexes materializes exactly n vertexes with the positions and
\* segment bulges of the source (last bulge 0); a closed source n + 1
\* vertexes, the n source vertexes followed by the position of vertex 0 with
\* bulge 0; it panics when the source has fewer than 2 vertexes.
C12_FromEntirePlineCovers ==
    ret.op = "from_entire_pline" =>
        IF Len(vertex_data) < 2 THEN ret.res = Panic ELSE EntirePlineCovers

\* from_entire_pline covers the whole polyline in a build without debug
\* assertions, and with them whenever the end point of the slice is not on
\* top of the vertex that starts its last segment
FromEntirePlineCoversUnlessAsserted ==
    (/\ ret.op = "from_entire_pline"
     /\ \/ ~ret.args[1]
        \/ Len(vertex_data) < 2
        \/ pos(vertex_data[Len(vertex_data)]) #
              pos(vertex_data[IF is_closed THEN 1 ELSE Len(vertex_data) - 1]))
        => C12_FromEntirePlineCovers

\* C13: create_on_single_segment returns None when the position of
\* updated_start equals end_point, and otherwise a slice that is not inverted,
\* with the given start_index, end_index_offset = 0, end_point as given and
\* updated_end_bulge = updated_start.bulge.
C13_CreateOnSingleSegment ==
    ret.op = "create_on_single_segment" =>
        LET start_index == ret.args[1]
            updated_start == ret.args[2]
            end_point == ret.args[3]
        IN IF pos(updated_start) = end_point
           THEN ret.res = None
           ELSE /\ IsSome(ret.res)
                /\ ret.res[2].start_index = start_index
                /\ ret.res[2].end_index_offset = 0
                /\ ret.res[2].end_point = end_point
                /\ ret.res[2].updated_end_bulge = updated_start.bulge
                /\ ret.res[2].updated_start = updated_start
                /\ ~ret.res[2].inverted_direction

\* C13 witness: a slice was created on the second segment of the source, in a
\* build with debug assertions, with a start bulge unlike the source's
C13_Witness ==
    /\ ret.op = "create_on_single_segment"
    /\ ret.args[1] = 1
    /\ ret.args[4]
    /\ IsSome(ret.res)
    /\ ret.args[2].bulge # vertex_data[2].bulge
    /\ view = ret.res[2]

\* the length of the first k segments of segs
RECURSIVE CumulativeLength(_, _)
CumulativeLength(segs, k) ==
    IF k = 0 THEN Real4(0, 0)
    ELSE LET rest == CumulativeLength(segs, k - 1)
             len == seg_length(segs[k][1], segs[k][2])
         IN Real4(rest.q + len.q, rest.p + len.p)

\* the sign of a length less a target path length
LengthLessTarget(len, target) == SignOfReal4(Real4(len.q - 4 * target, len.p))

\* the segments of the slice the last call ran on
SliceSegs == visit_segs(view, Self, TRUE)[2]

\* find_point_at_path_length for a target that is not negative: Err with the
\* total path length when the target exceeds it, otherwise Ok with the offset
\* of the first segment whose cumulative end length is >= target
FindPointForTarget(target) ==
    LET total == CumulativeLength(SliceSegs, Len(SliceSegs))
    IN IF LengthLessTarget(total, target) < 0
       THEN ret.res = <<"Err", total>>
       ELSE /\ IsOk(ret.res)
            /\ LET k == ret.res[2][1]
               IN /\ k \in 0 .. Len(SliceSegs) - 1
                  /\ LengthLessTarget(CumulativeLength(SliceSegs, k + 1), target) >= 0
                  /\ \A j \in 1 .. k :
                        LengthLessTarget(CumulativeLength(SliceSegs, j), target) < 0

\* the part of C14 about targets that are not negative
FindPointAtPathLengthFromZero ==
    (ret.op = "find_point_at_path_length" /\ ret.args[1] >= 0) =>
        FindPointForTarget(ret.args[1])

\* C14: find_point_at_path_length on a slice: for a negative target the result
\* is Ok with segment offset 0 and the slice's own first position (that of its
\* first materialized vertex), for every slice; when the target exceeds the
\* total path length of the slice the result is Err with that length;
\* otherwise it is Ok((k, point)) with k the offset of the first slice segment
\* whose cumulative end length is >= target.
C14_FindPointAtPathLength ==
    ret.op = "find_point_at_path_length" =>
        IF ret.args[1] < 0
        THEN ret.res = Ok(<<0, pos(visit_vertexes(view, Self, TRUE)[2][1])>>)
        ELSE FindPointForTarget(ret.args[1])
-----------------------------------------------------------------------------
(* Claims about remove_repeat_pos *)

\* vertex i of the polyline is at the position of its predecessor
RepeatsPredecessor(i) == i > 1 /\ pos(vertex_data[i]) = pos(vertex_data[i - 1])

\* the last vertex of the run of coincident vertexes that starts at i
RECURSIVE RunEnd(_)
RunEnd(i) ==
    IF i < Len(vertex_data) /\ RepeatsPredecessor(i + 1) THEN RunEnd(i + 1) ELSE i

\* the input without the vertexes that repeat their predecessor, every kept
\* vertex with the bulge of the last vertex of its run
RECURSIVE WithoutRepeatsFrom(_)
WithoutRepeatsFrom(i) ==
    IF i > Len(vertex_data) THEN <<>>
    ELSE IF RepeatsPredecessor(i) THEN WithoutRepeatsFrom(i + 1)
    ELSE <<with_bulge(vertex_data[i], vertex_data[RunEnd(i)].bulge)>>
         \o WithoutRepeatsFrom(i + 1)

\* ... and, when closed, without a last vertex on top of the first
WithoutRepeats ==
    LET kept == WithoutRepeatsFrom(1)
    IN IF /\ is_closed
          /\ Len(vertex_data) >= 2
          /\ pos(kept[Len(kept)]) = pos(kept[1])
       THEN RemoveLast(kept)
       ELSE kept

\* C15: when remove_repeat_pos returns a polyline, it keeps the closed flag,
\* has no two consecutive vertexes at the same position and, if closed, its
\* last vertex is not at the position of its first; each kept vertex carries
\* the bulge of the last vertex of the run it replaces; the result is the
\* input with exactly the repeated-position vertexes dropped.  It returns
\* None exactly when no vertex is removed.
C15_RemoveRepeatPos ==
    ret.op = "remove_repeat_pos" =>
        /\ IsNone(ret.res) <=> WithoutRepeats = vertex_data
        /\ IsSome(ret.res) =>
              LET r == ret.res[2].vertex_data
              IN /\ ret.res[2].is_closed = is_closed
                 /\ \A k \in 2 .. Len(r) : pos(r[k]) # pos(r[k - 1])
                 /\ (is_closed /\ Len(r) >= 2) => pos(r[Len(r)]) # pos(r[1])
                 /\ r = WithoutRepeats
                 /\ Len(r) < Len(vertex_data)

\* C15 witness: a closed polyline of three vertexes lost the repeat of its
\* first vertex, whose bulge differs from the bulge of the first
C15_Witness ==
    /\ ret.op = "remove_repeat_pos"
    /\ is_closed
    /\ Len(vertex_data) = 3
    /\ pos(vertex_data[1]) = pos(vertex_data[2])
    /\ vertex_data[1].bulge # vertex_data[2].bulge
    /\ pos(vertex_data[3]) # pos(vertex_data[1])
    /\ IsSome(ret.res)
    /\ Len(ret.res[2].vertex_data) = 2
-----------------------------------------------------------------------------
(* Claims about remove_redundant *)
-----------------------------------------------------------------------------
(* Claims about remove_redundant *)

\* the input of the call and the polyline the caller holds after it
RedundantInput == Self

\* vertex k (from 1) of the input and its neighbours, wrapping when closed
InputVertex(k) == vertex_data[((k - 1) % Len(vertex_data)) + 1]

\* vertex k repeats the position of the vertex after it
RepeatsNext(k) ==
    /\ is_closed \/ k < Len(vertex_data)
    /\ Len(vertex_data) >= 2
    /\ pos(InputVertex(k)) = pos(InputVertex(k + 1))

\* vertex k lies between its two neighbours on one straight line, the two
\* edges pointing the same way
OnLineBetweenNeighbours(k) ==
    /\ is_closed \/ (1 < k /\ k < Len(vertex_data))
    /\ Len(vertex_data) >= 3
    /\ LET v1 == InputVertex(k + Len(vertex_data) - 1)
           v2 == InputVertex(k)
           v3 == InputVertex(k + 1)
       IN /\ (v2.x - v1.x) * (v3.y - v1.y) - (v3.x - v1.x) * (v2.y - v1.y) = 0
          /\ (v3.x - v2.x) * (v2.x - v1.x) + (v3.y - v2.y) * (v2.y - v1.y) > 0

\* the input contains a redundant vertex
HasRedundantVertex ==
    \E k \in 1 .. Len(vertex_data) : RepeatsNext(k) \/ OnLineBetweenNeighbours(k)

\* C16: remove_redundant returns a polyline only when a vertex was removed:
\* a returned polyline has strictly fewer vertexes than the input and the
\* same closed flag, and an input without a redundant vertex returns None
C16_RemoveRedundantOnlyWhenRemoved ==
    ret.op = "remove_redundant" =>
        /\ IsSome(ret.res) =>
              /\ vertex_count(ret.res[2]) < vertex_count(Self)
              /\ ret.res[2].is_closed = is_closed
        /\ ~HasRedundantVertex => IsNone(ret.res)

\* a closed polyline of four vertexes with one redundant vertex comes back
\* with three vertexes
C16_Witness ==
    /\ ret.op = "remove_redundant"
    /\ is_closed
    /\ Len(vertex_data) = 4
    /\ HasRedundantVertex
    /\ IsSome(ret.res)
    /\ vertex_count(ret.res[2]) = 3

\* an input of three vertexes on one line with a turn back has no redundant
\* vertex and comes back as None
C16_WitnessNone ==
    /\ ret.op = "remove_redundant"
    /\ Len(vertex_data) = 3
    /\ ~HasRedundantVertex
    /\ vertex_data[1].y = vertex_data[2].y
    /\ vertex_data[2].y = vertex_data[3].y
    /\ IsNone(ret.res)

\* C17: remove_redundant is idempotent: a second call, on the result of the
\* first or on the input when the first reported no change, removes nothing
C17_RemoveRedundantIdempotent ==
    ret.op = "remove_redundant_again" => IsNone(ret.res)

\* the first call removed a vertex from a polyline that started with repeat
\* positions and the second call, on its result, reports no change
C17_Witness ==
    /\ ret.op = "remove_redundant_again"
    /\ Len(vertex_data) >= 3
    /\ pos(vertex_data[1]) = pos(vertex_data[2])
    /\ ret.args[1] # Self
    /\ vertex_count(ret.args[1]) < vertex_count(Self)
    /\ IsNone(ret.res)

\* v2, between two line segments, is dropped: v1, v2, v3 lie on one line
\* with (v3 - v2) . (v2 - v1) > 0, or v2 coincides with v3
DroppedBetween(v1, v2, v3) ==
    \/ pos(v2) = pos(v3)
    \/ /\ (v2.x - v1.x) * (v3.y - v1.y) - (v3.x - v1.x) * (v2.y - v1.y) = 0
       /\ (v3.x - v2.x) * (v2.x - v1.x) + (v3.y - v2.y) * (v2.y - v1.y) > 0

\* the vertexes of the input from k on that stay, after the kept ones: v1 is
\* the last kept vertex, v3 the vertex after v2 (the first one after the last
\* of a closed polyline); the final vertex of an open polyline always stays,
\* and so does the last vertex when nothing before it stayed
RECURSIVE KeptFrom(_, _)
KeptFrom(k, kept) ==
    IF k > Len(vertex_data) THEN kept
    ELSE LET v2 == vertex_data[k]
             v3 == InputVertex(k + 1)
             stays ==
                 IF k = Len(vertex_data) /\ (~is_closed \/ kept = <<>>) THEN TRUE
                 ELSE IF kept = <<>> THEN pos(v2) # pos(v3)
                 ELSE ~DroppedBetween(kept[Len(kept)], v2, v3)
         IN KeptFrom(k + 1, IF stays THEN Append(kept, v2) ELSE kept)

\* the vertexes that stay: those of the pass over the middle vertexes and,
\* for a closed polyline, without the first one when it lies in the middle of
\* the line from the last to the second
ExpectedKept ==
    LET kept == KeptFrom(1, <<>>)
    IN IF /\ is_closed
          /\ Len(kept) >= 3
          /\ DroppedBetween(kept[Len(kept)], kept[1], kept[2])
       THEN Tail(kept)
       ELSE kept

\* a and b hold the same vertexes in the same cyclic order
IsRotation(a, b) ==
    /\ Len(a) = Len(b)
    /\ \/ Len(a) = 0
       \/ \E s \in 0 .. Len(a) - 1 :
              \A j \in 1 .. Len(a) : a[j] = b[((j - 1 + s) % Len(a)) + 1]

\* the vertexes the caller holds after the call that returned res
HeldAfter(res) == IF IsSome(res) THEN res[2].vertex_data ELSE vertex_data

\* what remove_redundant leaves: the expected vertexes (up to the start
\* vertex of a closed polyline), an open polyline with the first and final
\* positions of the input
RedundantLeaves(res) ==
    /\ ~IsPanic(res)
    /\ IF is_closed THEN IsRotation(HeldAfter(res), ExpectedKept)
       ELSE HeldAfter(res) = ExpectedKept
    /\ (~is_closed /\ Len(vertex_data) >= 1) =>
          /\ Len(HeldAfter(res)) >= 1
          /\ pos(HeldAfter(res)[1]) = pos(vertex_data[1])
          /\ pos(HeldAfter(res)[Len(HeldAfter(res))]) = pos(vertex_data[Len(vertex_data)])

\* C18: remove_redundant drops a middle vertex between two line segments
\* exactly when it is collinear with its neighbours, the edges pointing the
\* same way (or it coincides with the next vertex); an open polyline always
\* keeps its first and final positions, also when it starts with repeat
\* positions; a closed polyline drops its first vertex too when it lies in
\* the middle of the line from the last vertex to the second
C18_RemoveRedundantMiddleVertexes ==
    ret.op = "remove_redundant" => RedundantLeaves(ret.res)

\* three or more vertexes, all of them on one position
AllCoincide ==
    /\ Len(vertex_data) >= 3
    /\ \A k \in 1 .. Len(vertex_data) : pos(vertex_data[k]) = pos(vertex_data[1])

\* the same on every input but the ones whose vertexes all coincide
RemoveRedundantUnlessAllCoincide ==
    (ret.op = "remove_redundant" /\ ~AllCoincide) => RedundantLeaves(ret.res)

\* the call panics exactly on three or more vertexes that all coincide
RemoveRedundantPanicsOnAllCoincide ==
    ret.op = "remove_redundant" => (IsPanic(ret.res) <=> AllCoincide)

\* a closed polyline whose first vertex lies in the middle of the line from
\* the last to the second comes back without it
ClosedFirstVertexDropped ==
    /\ ret.op = "remove_redundant"
    /\ is_closed
    /\ Len(vertex_data) = 4
    /\ ~(\E k \in 1 .. 4 : RepeatsNext(k))
    /\ OnLineBetweenNeighbours(1)
    /\ IsSome(ret.res)
    /\ \A j \in 1 .. Len(HeldAfter(ret.res)) :
           pos(HeldAfter(ret.res)[j]) # pos(vertex_data[1])
-----------------------------------------------------------------------------
(* Claims about rotate_start *)

\* vertex k (from 0) of the cyclic rotation of the source that starts at
\* source index from
RotatedVertex(from, k) == vertex_data[((from + k) % Len(vertex_data)) + 1]

\* the result for start_index and point, said from the source vertexes
RotateStartAnswer(start_index, point, res) ==
    LET n == Len(vertex_data)
        next == (start_index + 1) % n
    IN IF ~is_closed \/ n < 2 \/ start_index >= n THEN res = None
       ELSE /\ IsSome(res)
            /\ res[2].is_closed
            /\ pos(res[2].vertex_data[1]) = point
            /\ IF point = pos(vertex_data[start_index + 1])
               THEN /\ Len(res[2].vertex_data) = n
                    /\ \A k \in 0 .. n - 1 :
                           res[2].vertex_data[k + 1] = RotatedVertex(start_index, k)
               ELSE IF point = pos(vertex_data[next + 1])
               THEN /\ Len(res[2].vertex_data) = n
                    /\ \A k \in 0 .. n - 1 :
                           res[2].vertex_data[k + 1] = RotatedVertex(next, k)
               ELSE /\ Len(res[2].vertex_data) = n + 1
                    /\ res[2].vertex_data[1] = from_vector2(point, 0)
                    /\ \A k \in 0 .. n - 2 :
                           res[2].vertex_data[k + 2] = RotatedVertex(next, k)
                    /\ res[2].vertex_data[n + 1] = vertex_data[start_index + 1]

\* C19: rotate_start returns None for an open polyline, for fewer than two
\* vertexes and for a start_index past the last vertex; otherwise a closed
\* polyline that starts at point: the rotation of the n source vertexes when
\* point is on the vertex at start_index or on the next one, otherwise n + 1
\* vertexes: the split vertex at point, the source vertexes from the next
\* index on, wrapping, and last the vertex at start_index as the split of its
\* line segment leaves it
C19_RotateStart ==
    ret.op = "rotate_start" => RotateStartAnswer(ret.args[1], ret.args[2], ret.res)

\* a closed polyline of three vertexes split on its last segment, the one
\* that wraps: four vertexes come back
C19_Witness ==
    /\ ret.op = "rotate_start"
    /\ is_closed
    /\ Len(vertex_data) = 3
    /\ ret.args[1] = 2
    /\ pos(vertex_data[3]) # pos(vertex_data[1])
    /\ ret.args[2] # pos(vertex_data[3])
    /\ ret.args[2] # pos(vertex_data[1])
    /\ IsSome(ret.res)
    /\ Len(ret.res[2].vertex_data) = 4
-----------------------------------------------------------------------------
(* Claims about closest_point *)

\* a <= b for two fractions
RealLessEq(a, b) == a.num * b.den <= b.num * a.den

\* |p - v| squared for a vertex v
VertexDist2(p, v) == length_squared(p, ExactPoint(pos(v)))

\* the squared distance from p to the segment that starts at index i
SegDist2(p, i) ==
    length_squared(p,
        seg_closest_point(VecAt(vertex_data, i),
                          VecAt(vertex_data, (i + 1) % Len(vertex_data)), p))

\* the start indexes of the segments
SegStartIndexes == 0 .. segment_count(Self) - 1

\* the answer of closest_point(p), said from the vertexes and the segments
ClosestPointAnswer(p, res) ==
    /\ IsNone(res) <=> Len(vertex_data) = 0
    /\ IsSome(res) =>
          /\ \A k \in 1 .. Len(vertex_data) :
                 RealLessEq(res[2].distance.squared, VertexDist2(p, vertex_data[k]))
          /\ IF Len(vertex_data) = 1 THEN res[2].seg_start_index = 0
             ELSE /\ res[2].seg_start_index \in SegStartIndexes
                  /\ \A i \in SegStartIndexes :
                         /\ RealLessEq(SegDist2(p, res[2].seg_start_index), SegDist2(p, i))
                         /\ i < res[2].seg_start_index =>
                                ~RealLessEq(SegDist2(p, i), SegDist2(p, res[2].seg_start_index))
          /\ RealLessEq(res[2].distance.squared, length_squared(p, res[2].seg_point))
          /\ RealLessEq(length_squared(p, res[2].seg_point), res[2].distance.squared)

\* C20: closest_point(p) is None exactly for the empty polyline; otherwise
\* its distance is at most |p - v| for every vertex v, its seg_start_index is
\* the lowest start index of a segment at the least distance from p (0 for a
\* single vertex), and its distance is |p - seg_point|
C20_ClosestPoint ==
    ret.op = "closest_point" => ClosestPointAnswer(ret.args[1], ret.res)

\* two segments of a closed polyline at the same least distance from p, the
\* second of them the closing one: the lower index is answered, the
\* closest point strictly between two grid points
C20_Witness ==
    /\ ret.op = "closest_point"
    /\ is_closed
    /\ Len(vertex_data) = 3
    /\ IsSome(ret.res)
    /\ ret.res[2].seg_start_index = 0
    /\ ret.res[2].seg_point.den > 1
    /\ ret.res[2].seg_point.x % ret.res[2].seg_point.den # 0
    /\ RealLessEq(SegDist2(ret.args[1], 2), SegDist2(ret.args[1], 0))
-----------------------------------------------------------------------------
(* Claims about winding_number *)

\* point p lies on the straight segment from a to b
OnLineSegment(p, a, b) ==
    /\ (b.x - a.x) * (p.y - a.y) - (p.x - a.x) * (b.y - a.y) = 0
    /\ (p.x - a.x) * (p.x - b.x) <= 0
    /\ (p.y - a.y) * (p.y - b.y) <= 0

\* the side of c against the line from a to b: 1 left, -1 right, 0 on it
SideOf(a, b, c) ==
    LET cross == (b.x - a.x) * (c.y - a.y) - (c.x - a.x) * (b.y - a.y)
    IN IF cross > 0 THEN 1 ELSE IF cross < 0 THEN -1 ELSE 0

\* the straight segments from a to b and from c to d have a common point
SegmentsMeet(a, b, c, d) ==
    \/ /\ SideOf(a, b, c) * SideOf(a, b, d) < 0
       /\ SideOf(c, d, a) * SideOf(c, d, b) < 0
    \/ OnLineSegment(c, a, b)
    \/ OnLineSegment(d, a, b)
    \/ OnLineSegment(a, c, d)
    \/ OnLineSegment(b, c, d)

\* the start and the end of edge k (from 1) of pl, closed
EdgeStart(pl, k) == pos(pl.vertex_data[k])

EdgeEnd(pl, k) == pos(pl.vertex_data[(k % Len(pl.vertex_data)) + 1])

\* point p lies on the curve of the closed line-only polyline pl
PointOnCurve(pl, p) ==
    \E k \in 1 .. Len(pl.vertex_data) : OnLineSegment(p, EdgeStart(pl, k), EdgeEnd(pl, k))

\* the closed line-only polyline pl is simple: no edge of length zero, edges
\* next to each other share their common vertex only, other edges nothing
IsSimple(pl) ==
    LET n == Len(pl.vertex_data)
    IN /\ n >= 3
       /\ \A k \in 1 .. n : EdgeStart(pl, k) # EdgeEnd(pl, k)
       /\ \A k \in 1 .. n :
              /\ ~OnLineSegment(EdgeStart(pl, k), EdgeEnd(pl, k), EdgeEnd(pl, (k % n) + 1))
              /\ ~OnLineSegment(EdgeEnd(pl, (k % n) + 1), EdgeStart(pl, k), EdgeEnd(pl, k))
       /\ \A i, j \in 1 .. n :
              (i < j /\ j # i + 1 /\ ~(i = 1 /\ j = n)) =>
                  ~SegmentsMeet(EdgeStart(pl, i), EdgeEnd(pl, i),
                                EdgeStart(pl, j), EdgeEnd(pl, j))

\* C21: winding_number is 0 for an open polyline and for fewer than two
\* vertexes; for a simple closed polyline and a point off its curve it is
\* -1, 0 or 1 and, when not 0, the sign of area()
C21_WindingNumber ==
    ret.op = "winding_number" =>
        /\ (~is_closed \/ Len(vertex_data) < 2) => ret.res = 0
        /\ (is_closed /\ IsSimple(Self) /\ ~PointOnCurve(Self, ret.args[1])) =>
              /\ ret.res \in {-1, 0, 1}
              /\ ret.res # 0 => ret.res = SignOfReal4(area(Self))

\* a simple clockwise polygon around a point at the height of one of its
\* vertexes: the winding number is -1
C21_Witness ==
    /\ ret.op = "winding_number"
    /\ is_closed
    /\ IsSimple(Self)
    /\ ~PointOnCurve(Self, ret.args[1])
    /\ \E k \in 1 .. Len(vertex_data) : vertex_data[k].y = ret.args[1].y
    /\ SignOfReal4(area(Self)) = -1
    /\ ret.res = -1

\* the same with a counter clockwise polygon: the winding number is 1
C21_WitnessCounterClockwise ==
    /\ ret.op = "winding_number"
    /\ is_closed
    /\ IsSimple(Self)
    /\ ~PointOnCurve(Self, ret.args[1])
    /\ \E k \in 1 .. Len(vertex_data) : vertex_data[k].y = ret.args[1].y
    /\ ret.res = 1

\* C22: inverting the direction of a closed polyline negates its winding
\* number at every point off the curve and its area
C22_InvertNegates ==
    invert_calls = 1 =>
        /\ (ret.op = "winding_number" /\ ~PointOnCurve(orig, ret.args[1])) =>
              ret.res = 0 - winding_number(orig, ret.args[1])
        /\ ret.op = "area" =>
              /\ ret.res.q = 0 - area(orig).q
              /\ ret.res.p = 0 - area(orig).p

\* a polyline that crosses itself, inverted: the winding number at a point
\* off the curve changed from 1 to -1, or from -1 to 1
C22_Witness ==
    /\ invert_calls = 1
    /\ ret.op = "winding_number"
    /\ ~PointOnCurve(orig, ret.args[1])
    /\ Len(vertex_data) >= 3
    /\ ret.res # 0
    /\ ret.res = 0 - winding_number(orig, ret.args[1])

\* the area of an inverted polyline of area other than zero
C22_WitnessArea ==
    /\ invert_calls = 1
    /\ ret.op = "area"
    /\ ret.res.q # 0
    /\ ret.res.q = 0 - area(orig).q
-----------------------------------------------------------------------------
(* Claims about extents *)

\* every segment of the polyline is a line
LineOnly == \A k \in 1 .. Len(vertex_data) : vertex_data[k].bulge = 0

\* the four sides of the box are coordinates, in half units
IsFiniteBox(box) ==
    box.min_x.inf = 0 /\ box.min_y.inf = 0 /\ box.max_x.inf = 0 /\ box.max_y.inf = 0

\* the box contains the position of vertex v
BoxContains(box, v) ==
    /\ IsFiniteBox(box)
    /\ box.min_x.twice <= 2 * v.x
    /\ 2 * v.x <= box.max_x.twice
    /\ box.min_y.twice <= 2 * v.y
    /\ 2 * v.y <= box.max_y.twice

\* each side of the box touches a vertex
BoxTouchesVertexes(box) ==
    /\ \E k \in 1 .. Len(vertex_data) : box.min_x.twice = 2 * vertex_data[k].x
    /\ \E k \in 1 .. Len(vertex_data) : box.max_x.twice = 2 * vertex_data[k].x
    /\ \E k \in 1 .. Len(vertex_data) : box.min_y.twice = 2 * vertex_data[k].y
    /\ \E k \in 1 .. Len(vertex_data) : box.max_y.twice = 2 * vertex_data[k].y

\* the box of a polyline of two or more vertexes: min <= max on both axes,
\* every vertex inside, and the smallest such box when there are no arcs
IsExtentsBox(res) ==
    /\ IsSome(res)
    /\ IsFiniteBox(res[2])
    /\ res[2].min_x.twice <= res[2].max_x.twice
    /\ res[2].min_y.twice <= res[2].max_y.twice
    /\ \A k \in 1 .. Len(vertex_data) : BoxContains(res[2], vertex_data[k])
    /\ LineOnly => BoxTouchesVertexes(res[2])

\* C23: extents() is None for fewer than two vertexes; otherwise a box with
\* min <= max on both axes that contains every vertex and, for a line-only
\* polyline, is the smallest such box
C23_Extents ==
    ret.op = "extents" =>
        IF Len(vertex_data) < 2 THEN ret.res = None ELSE IsExtentsBox(ret.res)

\* an open line-only polyline whose first vertex alone has the largest x and
\* the smallest y: the box reaches it
C23_Witness ==
    /\ ret.op = "extents"
    /\ ~is_closed
    /\ LineOnly
    /\ Len(vertex_data) = 3
    /\ \A k \in 2 .. 3 : vertex_data[k].x < vertex_data[1].x /\ vertex_data[k].y > vertex_data[1].y
    /\ IsSome(ret.res)
    /\ ret.res[2].max_x.twice = 2 * vertex_data[1].x
    /\ ret.res[2].min_y.twice = 2 * vertex_data[1].y

\* an arc of odd chord length: the box reaches its apex between grid lines
C23_WitnessArc ==
    /\ ret.op = "extents"
    /\ IsSome(ret.res)
    /\ ret.res[2].min_y.twice = -1

\* C28: the two extents agree: for a line-only polyline with at least one
\* segment IterablePlineSegments::extents returns the box PolylineRef::extents
\* returns, a box with min <= max that contains the first vertex
C28_ExtentsAgree ==
    (ret.op = "segments_extents" /\ LineOnly /\ segment_count(Self) >= 1) =>
        /\ ret.res = extents(Self)
        /\ IsSome(ret.res)
        /\ IsFiniteBox(ret.res[2])
        /\ ret.res[2].min_x.twice <= ret.res[2].max_x.twice
        /\ ret.res[2].min_y.twice <= ret.res[2].max_y.twice
        /\ BoxContains(ret.res[2], vertex_data[1])

\* what the two do agree on: None together, and the lower sides of the box
\* of a closed line-only polyline, each of whose vertexes ends a segment
SegmentsExtentsLowerSides ==
    ret.op = "segments_extents" =>
        /\ IsNone(ret.res) <=> IsNone(extents(Self))
        /\ (IsSome(ret.res) /\ is_closed /\ LineOnly) =>
              /\ ret.res[2].min_x = extents(Self)[2].min_x
              /\ ret.res[2].min_y = extents(Self)[2].min_y
-----------------------------------------------------------------------------
(* Claims about add_or_replace_vertex *)

\* the call that led here was given vertex v on the polyline before
AddOrReplaceEffect(before, v) ==
    LET old == before.vertex_data
    IN /\ is_closed = before.is_closed
       /\ IF old = <<>> \/ pos(old[Len(old)]) # pos(v)
          THEN /\ Len(vertex_data) = Len(old) + 1
               /\ vertex_data[Len(vertex_data)] = v
               /\ \A k \in 1 .. Len(old) : vertex_data[k] = old[k]
          ELSE /\ Len(vertex_data) = Len(old)
               /\ pos(vertex_data[Len(old)]) = pos(old[Len(old)])
               /\ vertex_data[Len(old)].bulge = v.bulge
               /\ \A k \in 1 .. Len(old) - 1 : vertex_data[k] = old[k]

\* no vertex lies on the position of the vertex before it
NoConsecutiveRepeat ==
    \A k \in 2 .. Len(vertex_data) : pos(vertex_data[k]) # pos(vertex_data[k - 1])

\* C24: add_or_replace_vertex appends v to an empty polyline and to one whose
\* last position differs from v's; on an equal last position the count stays
\* and only the bulge of the last vertex becomes v.bulge; the other vertexes
\* and the closed flag stay; so a polyline built by these calls alone never
\* holds two consecutive vertexes on one position
C24_AddOrReplaceVertex ==
    /\ ret.op \in {"add_or_replace_vertex", "add_or_replace"} =>
           AddOrReplaceEffect(orig, ret.args[1])
    /\ NoConsecutiveRepeat

\* a call on the position of the last of two vertexes with another bulge:
\* two vertexes stay, the first as it was, the last with the new bulge
C24_Witness ==
    /\ ret.op = "add_or_replace_vertex"
    /\ Len(orig.vertex_data) = 2
    /\ Len(vertex_data) = 2
    /\ pos(orig.vertex_data[2]) = pos(ret.args[1])
    /\ orig.vertex_data[2].bulge # ret.args[1].bulge
    /\ vertex_data[2] = ret.args[1]
    /\ vertex_data[1] = orig.vertex_data[1]
-----------------------------------------------------------------------------
(* Claims about to_polyline and stitch_onto *)

\* the vertexes of the slice, as the view answers them in the same build
SliceVertexes(debug_assertions) == ViewVertexesFrom(view, Self, 0, debug_assertions)[2]

\* the polyline to_polyline returns for the slice
IsSlicePolyline(res, debug_assertions) ==
    /\ IsOk(res)
    /\ ~res[2].is_closed
    /\ Len(res[2].vertex_data) <= view.end_index_offset + 2
    /\ Len(res[2].vertex_data) >= 1
    /\ \A k \in 2 .. Len(res[2].vertex_data) :
           pos(res[2].vertex_data[k]) # pos(res[2].vertex_data[k - 1])
    /\ pos(res[2].vertex_data[1]) = pos(SliceVertexes(debug_assertions)[1])
    /\ pos(res[2].vertex_data[Len(res[2].vertex_data)])
           = pos(SliceVertexes(debug_assertions)[Len(SliceVertexes(debug_assertions))])

\* C25: to_polyline of a slice returns an open polyline of at most
\* end_index_offset + 2 vertexes, no two consecutive ones on one position,
\* that starts on the first and ends on the last position of the slice;
\* stitch_onto an empty target leaves the same vertexes in the target
C25_ToPolyline ==
    /\ ret.op = "to_polyline" =>
          /\ IsSlicePolyline(ret.res, ret.args[1])
          /\ stitch_onto(view, Self, <<>>, ret.args[1]) = Ok(ret.res[2].vertex_data)
    /\ ret.op = "stitch_onto" =>
          /\ IsOk(ret.res)
          /\ to_polyline(view, Self, ret.args[1]) = Ok(Polyline(ret.res[2], FALSE))

\* a slice over a whole closed source with a repeated position: to_polyline
\* returns fewer vertexes than the slice has, the first and the last on the
\* same position
C25_Witness ==
    /\ ret.op = "to_polyline"
    /\ is_closed
    /\ IsOk(ret.res)
    /\ Len(ret.res[2].vertex_data) >= 3
    /\ Len(ret.res[2].vertex_data) < view.end_index_offset + 2
    /\ pos(ret.res[2].vertex_data[1]) = pos(ret.res[2].vertex_data[Len(ret.res[2].vertex_data)])
-----------------------------------------------------------------------------
(* Claims about OpenPlineSlice::create *)

\* what create answers for a traverse_count other than 0: the slice of the
\* given start_index and end point, not inverted, that ends one segment
\* earlier when end_intersect lies on the vertex intersect_index
IsCreatedSlice(res, start_index, end_intersect, intersect_index, updated_start, traverse_count) ==
    LET on_vertex == end_intersect = pos(vertex_data[intersect_index + 1])
        prev_index == IF intersect_index = 0 THEN Len(vertex_data) - 1
                      ELSE intersect_index - 1
    IN /\ res[1] = "Ok"
       /\ res[2].start_index = start_index
       /\ res[2].end_point = end_intersect
       /\ res[2].updated_start = updated_start
       /\ ~res[2].inverted_direction
       /\ res[2].end_index_offset =
             IF on_vertex THEN traverse_count - 1 ELSE traverse_count
       /\ on_vertex /\ traverse_count - 1 # 0 =>
             res[2].updated_end_bulge = vertex_data[prev_index + 1].bulge
       /\ on_vertex /\ traverse_count - 1 = 0 =>
             res[2].updated_end_bulge = updated_start.bulge

\* C29: create panics when traverse_count = 0; otherwise it returns a slice
\* that is not inverted, with the given start_index and end_point =
\* end_intersect, whose end_index_offset is traverse_count - 1 when
\* end_intersect lies on the source vertex intersect_index and traverse_count
\* otherwise; on that vertex updated_end_bulge is the bulge of the source
\* vertex before intersect_index (wrapping) when the offset is not 0 and
\* updated_start.bulge when it is 0.
C29_Create ==
    ret.op = "create" =>
        IF ret.args[5] = 0 THEN ret.res = Panic
        ELSE IsCreatedSlice(ret.res, ret.args[1], ret.args[2], ret.args[3],
                            ret.args[4], ret.args[5])

\* the segment that ends the created slice has no length: end_intersect lies
\* on the vertex that starts it
EndsOnZeroLengthSegment ==
    LET n == Len(vertex_data)
        on_vertex == ret.args[2] = pos(vertex_data[ret.args[3] + 1])
        offset == IF on_vertex THEN ret.args[5] - 1 ELSE ret.args[5]
        end_index == (ret.args[1] + offset) % n
    IN ret.args[2] = pos(vertex_data[end_index + 1])

\* apart from the builds with debug assertions, on a slice ending on a
\* segment without length, create answers as C29 says
CreateUnlessAsserted ==
    ret.op = "create" /\ ~(ret.args[6] /\ EndsOnZeroLengthSegment) => C29_Create

\* with debug assertions create panics on every slice that ends on a segment
\* without length
CreateAssertsOnZeroLengthEnd ==
    ret.op = "create" /\ ret.args[6] /\ ret.args[5] # 0 /\ EndsOnZeroLengthSegment
        => ret.res = Panic
-----------------------------------------------------------------------------
(* Claims about arcs_to_approx_lines *)

\* C30: for a polyline whose bulges are all 0, arcs_to_approx_lines returns a
\* polyline with the same closed flag and exactly the same vertexes, for every
\* vertex count, the empty polyline and the closed polyline of one vertex
\* included.
C30_ArcsToApproxLines ==
    ret.op = "arcs_to_approx_lines" /\ LineOnly =>
        ret.res = Some(Polyline(vertex_data, is_closed))

\* apart from the closed polyline of one vertex, arcs_to_approx_lines
\* answers as C30 says
ArcsToApproxLinesUnlessClosedSingle ==
    ret.op = "arcs_to_approx_lines" /\ ~(is_closed /\ Len(vertex_data) = 1)
        => C30_ArcsToApproxLines

\* the closed polyline of one vertex comes back without its vertex
ArcsToApproxLinesDropsClosedSingle ==
    ret.op = "arcs_to_approx_lines" /\ is_closed /\ Len(vertex_data) = 1
        => ret.res = Some(Polyline(<<>>, TRUE))
-----------------------------------------------------------------------------
(* Claims about the totality of remove_redundant *)

\* C27: remove_redundant is total: on every polyline of 2 or more vertexes,
\* those whose 3 or more vertexes all lie on one position and those that start
\* with repeat positions included, it returns a polyline or None, reads no
\* vertex at an index past the last and does not panic.
C27_RemoveRedundantTotal ==
    ret.op = "remove_redundant" /\ Len(vertex_data) >= 2 => ~IsPanic(ret.res)

\* a polyline that starts with repeat positions and has a vertex elsewhere
\* comes back, or None does
RemoveRedundantTotalOnLeadingRepeats ==
    /\ ret.op = "remove_redundant"
    /\ Len(vertex_data) >= 3
    /\ pos(vertex_data[1]) = pos(vertex_data[2])
    /\ ~AllCoincide
    => ~IsPanic(ret.res)
-----------------------------------------------------------------------------
(* Claims about visit_self_intersects_opt *)

\* the passes entered and the intersects visited fit options.include: nothing
\* below 2 vertexes, where the continuing value is returned; the local pass
\* alone and no index for Local; the global pass alone for Global; for All
\* the local pass first, and the global pass after it only when the visitor
\* did not break in the local pass; an index is built by the call exactly when
\* a pass that needs one is reached and the options carry none
VisitDispatch ==
    visit # NoVisit =>
        LET include == visit.options.include
            short == Len(vertex_data) < 2
            locals == {k \in 1 .. Len(visit.visited) : visit.visited[k] = "local"}
            globals == {k \in 1 .. Len(visit.visited) : visit.visited[k] = "global"}
        IN /\ short => /\ visit.pc = "returned"
                       /\ visit.passes = <<>>
                       /\ visit.visited = <<>>
                       /\ visit.built = 0
                       /\ ret.res = Continue
           /\ ~short /\ include = "Local" =>
                 /\ visit.passes = <<"local">>
                 /\ globals = {}
                 /\ visit.built = 0
           /\ ~short /\ include = "Global" =>
                 /\ visit.passes = <<"global">>
                 /\ locals = {}
           /\ ~short /\ include = "All" =>
                 /\ visit.passes \in {<<"local">>, <<"local", "global">>}
                 /\ \A i \in locals, j \in globals : i < j
                 /\ visit.passes = <<"local">> => globals = {}
                 /\ visit.passes = <<"local", "global">> /\ visit.broke =>
                       /\ globals # {}
                       /\ visit.pc = "returned"
           /\ visit.built \in {0, 1}
           /\ visit.built = 1 <=>
                 ~short /\ include # "Local" /\ visit.options.aabb_index = None
           /\ visit.pc = "returned" /\ ~short =>
                 ret.res = IF visit.broke THEN Break ELSE Continue

\* a step after the visitor broke visits no intersect and enters no pass
NothingAfterBreak ==
    visit # NoVisit /\ visit.broke =>
        /\ visit'.visited = visit.visited
        /\ visit'.passes = visit.passes

\* C26: visit_self_intersects_opt dispatches by options.include: below 2
\* vertexes nothing is visited and the continuing value is returned; Local
\* runs the local pass alone and builds no index; Global runs the global pass
\* alone; All runs the local pass first and the global pass afterwards only
\* if the visitor did not break in the local pass; once the visitor breaks no
\* further intersect is visited; the call builds an index only when the
\* options supply none.
C26_VisitSelfIntersectsOpt == []VisitDispatch /\ [][NothingAfterBreak]_vars

\* C26 witness: with All and no index supplied the visitor broke on the
\* second intersect of the local pass, and the call returned the break
\* without entering the global pass
C26_Witness ==
    /\ visit # NoVisit
    /\ visit.options = PlineSelfIntersectOptions(None, "All")
    /\ visit.pc = "returned"
    /\ visit.broke
    /\ visit.visited = <<"local", "local">>
    /\ visit.passes = <<"local">>
    /\ visit.built = 1
    /\ ret.res = Break

\* with All and an index supplied both passes ran to their end
C26_WitnessBothPasses ==
    /\ visit # NoVisit
    /\ visit.options.include = "All"
    /\ IsSome(visit.options.aabb_index)
    /\ visit.pc = "returned"
    /\ ~visit.broke
    /\ visit.visited = <<"local", "global", "global">>
    /\ visit.built = 0
    /\ ret.res = Continue

====
